---- MODULE Spec2Model ----
(***************************************************************************)
(* PerformerSiteSync: the source-access layer (GraphQLClient: SQLite cache *)
(* with TTL, rate limiting, retry with exponential backoff) and the        *)
(* precedence merge of per-source performer records (DataUtils), the image *)
(* and stash_ids reconciliation, and the per-performer workflow and run    *)
(* loop of PerformerSync.                                                  *)
(*                                                                         *)
(* Time is in seconds.  JSON values are tagged records; Python's None is   *)
(* the JSON null.  One action is one public method call, run to its        *)
(* return; lastCall.log is the trace of the sleeps, network attempts and   *)
(* cache statements the call executed, in program order.                   *)
(***************************************************************************)
EXTENDS Integers, Sequences, FiniteSets, TLC

\* ---------------------------------------------------------------- bounds
MaxCalls == 2        \* client method calls in one behaviour
MaxTicks == 1        \* clock advances between calls in one behaviour
NumValues == 2       \* distinct non-null values of a performer attribute
NetLatency == 1      \* seconds one network exchange takes
MaxPerformers == 2   \* performers in the local catalog of a run

\* ------------------------------------------------------ program constants
DefaultRetries == 5
TestRetries == 1
DefaultCacheHours == 24
DefaultRateLimit == 2
SecondsPerHour == 3600
BackoffBase == 2

\* ------------------------------------------------------------ JSON values
JNull == [t |-> "null"]
JStr(s) == [t |-> "str", s |-> s]
JList(q) == [t |-> "list", l |-> q]
JObj(f) == [t |-> "obj", o |-> f]
EmptyDict == [k \in {} |-> JNull]

\* Python truthiness of a decoded JSON value: `if data:`
Truthy(v) ==
    CASE v.t = "null" -> FALSE
      [] v.t = "str" -> v.s # ""
      [] v.t = "list" -> Len(v.l) > 0
      [] v.t = "obj" -> DOMAIN v.o # {}

\* dict.get(key) on a JSON object, None when the key is missing
DictGet(v, key) == IF v.t = "obj" /\ key \in DOMAIN v.o THEN v.o[key] ELSE JNull

RECURSIVE SetToSeq(_)
SetToSeq(S) ==
    IF S = {} THEN <<>>
    ELSE LET x == CHOOSE y \in S : TRUE IN <<x>> \o SetToSeq(S \ {x})

\* json.dumps: the value as a token text.  "s" opens a string, "k" a member
\* key, "[" "]" and "{" "}" bracket lists and objects.
RECURSIVE JsonDumps(_), DumpItems(_), DumpMembers(_, _)
JsonDumps(v) ==
    CASE v.t = "null" -> <<"null">>
      [] v.t = "str" -> <<"s", v.s>>
      [] v.t = "list" -> <<"[">> \o DumpItems(v.l) \o <<"]">>
      [] v.t = "obj" -> <<"{">> \o DumpMembers(v.o, SetToSeq(DOMAIN v.o)) \o <<"}">>

DumpItems(q) ==
    IF q = <<>> THEN <<>> ELSE JsonDumps(Head(q)) \o DumpItems(Tail(q))

DumpMembers(f, ks) ==
    IF ks = <<>> THEN <<>>
    ELSE <<"k", Head(ks)>> \o JsonDumps(f[Head(ks)]) \o DumpMembers(f, Tail(ks))

\* json.loads: recursive descent over the token text; [v, next]
RECURSIVE Parse(_, _), ParseItems(_, _, _), ParseMembers(_, _, _)
Parse(toks, i) ==
    CASE toks[i] = "null" -> [v |-> JNull, next |-> i + 1]
      [] toks[i] = "s" -> [v |-> JStr(toks[i + 1]), next |-> i + 2]
      [] toks[i] = "[" -> ParseItems(toks, i + 1, <<>>)
      [] toks[i] = "{" -> ParseMembers(toks, i + 1, EmptyDict)

ParseItems(toks, i, acc) ==
    IF toks[i] = "]" THEN [v |-> JList(acc), next |-> i + 1]
    ELSE LET r == Parse(toks, i) IN ParseItems(toks, r.next, Append(acc, r.v))

ParseMembers(toks, i, acc) ==
    IF toks[i] = "}" THEN [v |-> JObj(acc), next |-> i + 1]
    ELSE LET r == Parse(toks, i + 2)
         IN ParseMembers(toks, r.next, (toks[i + 1] :> r.v) @@ acc)

JsonLoads(toks) == Parse(toks, 1).v

\* F applied to the value of v, which is computed once
With(v, F(_)) == CHOOSE y \in {F(x) : x \in {v}} : TRUE

\* ---------------------------------------------------------- configuration
SourceNames == {"stashdb", "tpdb", "fansdb"}

DefaultConfig ==
    [cacheExpirationHours |-> DefaultCacheHours,
     rateLimit |-> DefaultRateLimit,
     enableStashDB |-> TRUE,
     enableTPDB |-> TRUE,
     enableFansDB |-> TRUE,
     sourcePrecedence |-> <<"stashdb", "tpdb", "fansdb">>,
     debugLogging |-> FALSE,
     performerImageUpdate |-> TRUE,
     enableNameSearch |-> TRUE,
     autoCreateSites |-> FALSE]

\* fault variant: the defaults override the host's settings
LoadPluginConfigDefaultsWin(user) == DefaultConfig @@ user

\* config = {**default_config, **performer_sync_config}
LoadPluginConfig(user) == user @@ DefaultConfig

\* plugin_config.get(key, default)
ConfigGet(pc, key, default) == IF key \in DOMAIN pc THEN pc[key] ELSE default

\* f"enable{source.upper()}" if source != 'tpdb' else 'enableTPDB'
EnableKey(source) ==
    CASE source = "tpdb" -> "enableTPDB"
      [] source = "stashdb" -> "enableSTASHDB"
      [] source = "fansdb" -> "enableFANSDB"
      [] OTHER -> "enable"

EndpointUrl(source) ==
    CASE source = "stashdb" -> "https://stashdb.org/graphql"
      [] source = "tpdb" -> "https://theporndb.net/graphql"
      [] source = "fansdb" -> "https://fansdb.cc/graphql"
      [] OTHER -> ""

\* the sources dict: every name of the precedence list that has an endpoint
\* and is not disabled, with the (last) 1-based position it is listed at
\* fault variant: an endpoint the precedence setting does not name is a
\* source too, ranked after the named ones
BuildSourcesConfigEveryEndpoint(pc, eps) ==
    LET order == pc.sourcePrecedence
        Listed(s) == {i \in 1..Len(order) : order[i] = s}
        Max(S) == CHOOSE m \in S : \A n \in S : n <= m
        Names == {s \in DOMAIN eps : ConfigGet(pc, EnableKey(s), TRUE)}
    IN [s \in Names |-> [precedence |-> IF Listed(s) # {} THEN Max(Listed(s))
                                        ELSE Len(order) + 1,
                         url |-> eps[s].url,
                         api_key |-> eps[s].api_key]]

BuildSourcesConfig(pc, eps) ==
    LET order == pc.sourcePrecedence
        Listed(s) == {i \in 1..Len(order) : order[i] = s}
        Max(S) == CHOOSE m \in S : \A n \in S : n <= m
        Names == {s \in DOMAIN eps :
                    Listed(s) # {} /\ ConfigGet(pc, EnableKey(s), TRUE)}
    IN [s \in Names |-> [precedence |-> Max(Listed(s)),
                         url |-> eps[s].url,
                         api_key |-> eps[s].api_key]]

\* ------------------------------------------------------------------ state
VARIABLES
    hostSettings,   \* the plugin's settings section of the host configuration
    endpoints,      \* stash-box endpoints of the host: source -> [url, api_key]
    cache,          \* the SQLite file: table -> set of rows
    now,            \* wall clock, seconds
    hashSeed,       \* string-hash seed of the running Python process
    lastCall,       \* the last client call: inputs, result, trace
    lastPut,        \* history: per (table, id) the last payload handed to _cache_data
    calls,
    ticks,
    fetched,        \* performer_data_by_source: insertion-ordered <<source, record>>
    merged,         \* the result of merge_performer_data, once it has run
    existingStashIds, \* the stash_ids list of the local performer being reconciled
    recon,          \* the image and the stash_ids list computed from fetched
    catalog,        \* the performers of the local catalog
    remote,         \* the remote side during one run: source -> transport, answers
    run,            \* update_all_performers: position, counters, return value
    entity,         \* the last update_performer_data call: inputs, calls, outcome
    payload,        \* build_performer_update_data: the merged record and its result
    fav             \* a favorites sync: the favorite, the lookups, the catalog calls

clientVars == <<cache, now, hashSeed, lastCall, lastPut, calls, ticks>>
mergeVars == <<fetched, merged>>
reconVars == <<existingStashIds, recon>>
syncVars == <<catalog, remote, run, entity>>
buildVars == <<payload>>
favVars == <<fav>>
vars == <<hostSettings, endpoints, cache, now, hashSeed, lastCall, lastPut, calls, ticks,
          fetched, merged, existingStashIds, recon, catalog, remote, run, entity,
          payload, fav>>

PluginConfig == LoadPluginConfig(hostSettings)
Sources == BuildSourcesConfig(PluginConfig, endpoints)

Tables == {"performer_cache", "search_cache", "favorites_cache"}
EmptyCache == [tb \in Tables |-> {}]

\* ------------------------------------------------------------ cache layer
\* hashlib.md5(f"{source}:{operation}:{identifier}"): the hashed text stands
\* for its digest
GetCacheKey(source, operation, identifier) == <<source, operation, identifier>>

\* str(hash(query + str(variables))): Python salts str hashes per process
RequestIdentifier(seed, query, variables) == <<seed, query, variables>>

\* fault variant: a record is still served at its expiry instant
IsCacheValidInclusive(timestamp, t, pc) ==
    t <= timestamp + (pc.cacheExpirationHours * SecondsPerHour)

IsCacheValid(timestamp, t, pc) ==
    t < timestamp + (pc.cacheExpirationHours * SecondsPerHour)

Ev(e, d, at, tb, out) == [e |-> e, d |-> d, at |-> at, tb |-> tb, out |-> out]

\* a call in progress: the clock, the cache file, the trace so far, the
\* history of puts and the cache read the call made
Step(st, ev) == [st EXCEPT !.log = Append(@, ev)]

NoRead == [done |-> FALSE, tb |-> "", id |-> <<>>, at |-> 0, data |-> JNull]
Read(table, cache_key, at, data) ==
    [done |-> TRUE, tb |-> table, id |-> cache_key, at |-> at, data |-> data]

\* the statements the cache file may fail on (sqlite3.Error)
Statements == {"select", "delete", "insert"}

\* the columns CREATE TABLE gives each table
TableColumns(table) ==
    {"id", "source", "data", "timestamp"} \cup
      (CASE table = "performer_cache" -> {"performer_id"}
         [] table = "search_cache" -> {"search_term"}
         [] OTHER -> {"cache_type"})

\* the columns the INSERT OR REPLACE of _cache_data names for the table
InsertColumns(table) ==
    {"id", "source", "data", "timestamp"} \cup
      (IF table = "favorites_cache" THEN {"cache_type"} ELSE {"performer_id"})

\* the INSERT raises sqlite3.OperationalError: the file fails, or the table
\* has no column of a name the statement uses
InsertFails(st, table) ==
    "insert" \in st.disk \/ ~(InsertColumns(table) \subseteq TableColumns(table))

\* what _get_cached_data returns with: the data, the read and its trace
ReadDone(st, s, cache_key, table, data, out) ==
    [data |-> data,
     st |-> Step([s EXCEPT !.read = Read(table, cache_key, st.now, data)],
                 Ev("cache_get", 0, st.now, table, out))]

\* fault variant: a read that finds its row expired deletes every expired row
\* of the table
GetCachedDataSweep(st, cache_key, table, pc) ==
    LET rows == {r \in st.cache[table] : r.id = cache_key}
    IN IF "select" \in st.disk
       THEN ReadDone(st, st, cache_key, table, JNull, "error")
       ELSE IF rows = {}
       THEN ReadDone(st, st, cache_key, table, JNull, "miss")
       ELSE LET r == CHOOSE x \in rows : TRUE
            IN IF IsCacheValid(r.timestamp, st.now, pc)
               THEN ReadDone(st, st, cache_key, table, JsonLoads(r.data), "hit")
               ELSE IF "delete" \in st.disk
               THEN ReadDone(st, st, cache_key, table, JNull, "error")
               ELSE ReadDone(st,
                      [st EXCEPT !.cache[table] =
                          {x \in @ : IsCacheValid(x.timestamp, st.now, pc)}],
                      cache_key, table, JNull, "expired")

\* _get_cached_data: [data, st]; data is None on a miss, on an expired row
\* (which is deleted) and on any sqlite/json exception, which the except
\* clause swallows; the connection rolls back what a failed block did
GetCachedData(st, cache_key, table, pc) ==
    LET rows == {r \in st.cache[table] : r.id = cache_key}
    IN IF "select" \in st.disk
       THEN ReadDone(st, st, cache_key, table, JNull, "error")
       ELSE IF rows = {}
       THEN ReadDone(st, st, cache_key, table, JNull, "miss")
       ELSE LET r == CHOOSE x \in rows : TRUE
            IN IF IsCacheValid(r.timestamp, st.now, pc)
               THEN ReadDone(st, st, cache_key, table, JsonLoads(r.data), "hit")
               ELSE IF "delete" \in st.disk
               THEN ReadDone(st, st, cache_key, table, JNull, "error")
               ELSE ReadDone(st,
                      [st EXCEPT !.cache[table] = {x \in @ : x.id # cache_key}],
                      cache_key, table, JNull, "expired")

\* fault variant: INSERT OR IGNORE, the row a key already has is kept
InsertOrIgnore(rows, row) ==
    IF \E x \in rows : x.id = row.id THEN rows ELSE rows \cup {row}

\* INSERT OR REPLACE on the table's PRIMARY KEY id
InsertOrReplace(rows, row) == {x \in rows : x.id # row.id} \cup {row}

\* a row of a cache table
Row(cache_key, source, identifier, data, timestamp) ==
    [id |-> cache_key, source |-> source, sub |-> identifier,
     data |-> JsonDumps(data), timestamp |-> timestamp]

\* fault variant: a failing INSERT leaves a row without data behind
CacheDataTornWrite(st, cache_key, source, identifier, data, table) ==
    LET row == Row(cache_key, source, identifier, data, st.now)
        put == [id |-> cache_key, payload |-> data, at |-> st.now]
    IN IF InsertFails(st, table)
       THEN Step([st EXCEPT !.cache[table] =
                     InsertOrReplace(@, Row(cache_key, source, identifier, JNull, st.now))],
                 Ev("cache_put_failed", 0, st.now, table, "error"))
       ELSE Step([st EXCEPT !.cache[table] = InsertOrReplace(@, row),
                            !.puts[table] = {p \in @ : p.id # cache_key} \cup {put}],
                 Ev("cache_put", 0, st.now, table, "ok"))

\* _cache_data: the except clause swallows a failing INSERT or commit
CacheData(st, cache_key, source, identifier, data, table) ==
    LET row == Row(cache_key, source, identifier, data, st.now)
        put == [id |-> cache_key, payload |-> data, at |-> st.now]
    IN IF InsertFails(st, table)
       THEN Step(st, Ev("cache_put_failed", 0, st.now, table, "error"))
       ELSE Step([st EXCEPT !.cache[table] = InsertOrReplace(@, row),
                            !.puts[table] = {p \in @ : p.id # cache_key} \cup {put}],
                 Ev("cache_put", 0, st.now, table, "ok"))

\* ----------------------------------------------------------- make_request
\* one network exchange as the transport decides it: the first k attempts
\* raise a RequestException, the next one is answered with resp
Response(errors, data) == [errors |-> errors, data |-> data]

\* fault variant: the throttle sleeps once per call, not once per attempt
RateLimitSleepOncePerCall(st, pc) ==
    IF pc.rateLimit > 0 /\ \A i \in 1..Len(st.log) : st.log[i].e # "attempt"
    THEN Step([st EXCEPT !.now = @ + pc.rateLimit],
              Ev("rate_sleep", pc.rateLimit, st.now, "", ""))
    ELSE st

\* fault variant: on a retry the backoff stands in for the throttle
RateLimitSleepNotAfterBackoff(st, pc) ==
    IF pc.rateLimit > 0 /\ (st.log = <<>> \/ st.log[Len(st.log)].e # "backoff_sleep")
    THEN Step([st EXCEPT !.now = @ + pc.rateLimit],
              Ev("rate_sleep", pc.rateLimit, st.now, "", ""))
    ELSE st

RateLimitSleep(st, pc) ==
    IF pc.rateLimit > 0
    THEN Step([st EXCEPT !.now = @ + pc.rateLimit],
              Ev("rate_sleep", pc.rateLimit, st.now, "", ""))
    ELSE st

\* fault variant: the exponent counts attempts from 1
BackoffTimeFromOne(attempt) == BackoffBase ^ (attempt + 1)

BackoffTime(attempt) == BackoffBase ^ attempt

RequestKey(a) ==
    GetCacheKey(a.source, "request", RequestIdentifier(a.seed, a.query, a.variables))

\* fault variant: the error list of a response is not looked at
HandleResponseIgnoringErrors(st, a) ==
    LET data == a.resp.data
    IN [result |-> data,
        st |-> IF a.use_cache /\ Truthy(data)
               THEN CacheData(st, RequestKey(a), a.source, "request",
                              data, "search_cache")
               ELSE st]

\* a response arrived (no RequestException): errors end the call, data is
\* cached when use_cache and returned
HandleResponse(st, a) ==
    IF a.resp.errors
    THEN [result |-> JNull, st |-> st]
    ELSE LET data == a.resp.data
         IN [result |-> data,
             st |-> IF a.use_cache /\ Truthy(data)
                    THEN CacheData(st, RequestKey(a), a.source, "request",
                                   data, "search_cache")
                    ELSE st]

\* fault variant: an answer with an error list is retried like a transport
\* failure
RECURSIVE RequestLoopRetryOnErrors(_, _, _)
RequestLoopRetryOnErrors(st, attempt, a) ==
    IF attempt >= a.retries THEN [result |-> JNull, st |-> st]
    ELSE
    LET s1 == RateLimitSleep(st, a.pc)
        out == IF attempt < a.k THEN "transport_error"
               ELSE IF a.resp.errors THEN "errors" ELSE "ok"
        s2 == Step([s1 EXCEPT !.now = @ + NetLatency],
                   Ev("attempt", NetLatency, s1.now, "", out))
    IN IF out # "ok"
       THEN IF attempt < a.retries - 1
            THEN LET sleep_time == BackoffTime(attempt)
                     s3 == Step([s2 EXCEPT !.now = @ + sleep_time],
                                Ev("backoff_sleep", sleep_time, s2.now, "", ""))
                 IN RequestLoopRetryOnErrors(s3, attempt + 1, a)
            ELSE [result |-> JNull, st |-> s2]
       ELSE HandleResponse(s2, a)

\* the body of `for attempt in range(retries)`, from iteration `attempt` on
RECURSIVE RequestLoop(_, _, _)
RequestLoop(st, attempt, a) ==
    IF attempt >= a.retries THEN [result |-> JNull, st |-> st]
    ELSE
    LET s1 == RateLimitSleep(st, a.pc)
        out == IF attempt < a.k THEN "transport_error"
               ELSE IF a.resp.errors THEN "errors" ELSE "ok"
        s2 == Step([s1 EXCEPT !.now = @ + NetLatency],
                   Ev("attempt", NetLatency, s1.now, "", out))
    IN IF attempt < a.k
       THEN IF attempt < a.retries - 1
            THEN LET sleep_time == BackoffTime(attempt)
                     s3 == Step([s2 EXCEPT !.now = @ + sleep_time],
                                Ev("backoff_sleep", sleep_time, s2.now, "", ""))
                 IN RequestLoop(s3, attempt + 1, a)
            ELSE [result |-> JNull, st |-> s2]
       ELSE HandleResponse(s2, a)

\* fault variant: the cache is never consulted
MakeRequestRunSkipCache(st, a) ==
    IF a.source \notin DOMAIN a.srcs
    THEN [result |-> JNull, st |-> st]
    ELSE RequestLoop(st, 0, a)

\* fault variant: the cache is consulted before the source is looked up
MakeRequestRunCacheFirst(st, a) ==
    LET cached == IF a.use_cache
                  THEN GetCachedData(st, RequestKey(a), "search_cache", a.pc)
                  ELSE [data |-> JNull, st |-> st]
    IN IF Truthy(cached.data)
       THEN [result |-> cached.data, st |-> cached.st]
       ELSE IF a.source \notin DOMAIN a.srcs
            THEN [result |-> JNull, st |-> cached.st]
            ELSE RequestLoop(cached.st, 0, a)

\* make_request(query, variables, source, use_cache, retries): [result, st]
MakeRequestRun(st, a) ==
    IF a.source \notin DOMAIN a.srcs
    THEN [result |-> JNull, st |-> st]
    ELSE IF a.use_cache
         THEN LET cached == GetCachedData(st, RequestKey(a), "search_cache", a.pc)
              IN IF Truthy(cached.data)
                 THEN [result |-> cached.data, st |-> cached.st]
                 ELSE RequestLoop(cached.st, 0, a)
         ELSE RequestLoop(st, 0, a)

\* fault variant: find_performer goes to the network without reading the
\* cache
FindPerformerRunSkipCache(st, performer_id, a) ==
    LET cache_key == GetCacheKey(a.source, "performer", performer_id)
        r == MakeRequestRun(st, a)
    IN IF Truthy(r.result)
       THEN LET performer_data == DictGet(r.result, "findPerformer")
            IN [result |-> performer_data,
                st |-> IF Truthy(performer_data)
                       THEN CacheData(r.st, cache_key, a.source, performer_id,
                                      performer_data, "performer_cache")
                       ELSE r.st]
       ELSE [result |-> JNull, st |-> r.st]

\* find_performer(performer_id, source): [result, st]
FindPerformerRun(st, performer_id, a) ==
    LET cache_key == GetCacheKey(a.source, "performer", performer_id)
        cached == GetCachedData(st, cache_key, "performer_cache", a.pc)
    IN IF Truthy(cached.data)
       THEN [result |-> cached.data, st |-> cached.st]
       ELSE LET r == MakeRequestRun(cached.st, a)
            IN IF Truthy(r.result)
               THEN LET performer_data == DictGet(r.result, "findPerformer")
                    IN [result |-> performer_data,
                        st |-> IF Truthy(performer_data)
                               THEN CacheData(r.st, cache_key, a.source, performer_id,
                                              performer_data, "performer_cache")
                               ELSE r.st]
               ELSE [result |-> JNull, st |-> r.st]

\* fault variant: a favorites request that brought nothing is remembered as
\* an empty list
GetFavoritesRunCacheFailure(st, favorite_type, a) ==
    LET cache_key == GetCacheKey(a.source, "favorites", favorite_type)
    IN With(GetCachedData(st, cache_key, "favorites_cache", a.pc), LAMBDA cached :
       IF Truthy(cached.data)
       THEN [raised |-> FALSE, result |-> cached.data, st |-> cached.st]
       ELSE With(MakeRequestRun(cached.st, a), LAMBDA r :
              IF ~Truthy(r.result) \/ "me" \notin DOMAIN r.result.o
              THEN [raised |-> FALSE, result |-> JNull,
                    st |-> CacheData(r.st, cache_key, a.source, favorite_type,
                                     JList(<<>>), "favorites_cache")]
              ELSE IF r.result.o["me"].t # "obj"
              THEN [raised |-> TRUE, result |-> JNull, st |-> r.st]
              ELSE IF ~Truthy(DictGet(r.result.o["me"], "favorites"))
              THEN [raised |-> FALSE, result |-> JNull, st |-> r.st]
              ELSE LET favorites == r.result.o["me"].o["favorites"]
                       favorites_data == IF favorite_type \in DOMAIN favorites.o
                                         THEN favorites.o[favorite_type]
                                         ELSE JList(<<>>)
                   IN [raised |-> FALSE, result |-> favorites_data,
                       st |-> CacheData(r.st, cache_key, a.source, favorite_type,
                                        favorites_data, "favorites_cache")]))

\* get_favorites(source, favorite_type): [raised, result, st]; a is the
\* make_request call it makes (use_cache = False); data.get('me', {}) is not
\* a dict when the answer carries "me": null, and .get raises
GetFavoritesRun(st, favorite_type, a) ==
    LET cache_key == GetCacheKey(a.source, "favorites", favorite_type)
    IN With(GetCachedData(st, cache_key, "favorites_cache", a.pc), LAMBDA cached :
       IF Truthy(cached.data)
       THEN [raised |-> FALSE, result |-> cached.data, st |-> cached.st]
       ELSE With(MakeRequestRun(cached.st, a), LAMBDA r :
              IF ~Truthy(r.result) \/ "me" \notin DOMAIN r.result.o
              THEN [raised |-> FALSE, result |-> JNull, st |-> r.st]
              ELSE IF r.result.o["me"].t # "obj"
              THEN [raised |-> TRUE, result |-> JNull, st |-> r.st]
              ELSE IF ~Truthy(DictGet(r.result.o["me"], "favorites"))
              THEN [raised |-> FALSE, result |-> JNull, st |-> r.st]
              ELSE LET favorites == r.result.o["me"].o["favorites"]
                       favorites_data == IF favorite_type \in DOMAIN favorites.o
                                         THEN favorites.o[favorite_type]
                                         ELSE JList(<<>>)
                   IN [raised |-> FALSE, result |-> favorites_data,
                       st |-> CacheData(r.st, cache_key, a.source, favorite_type,
                                        favorites_data, "favorites_cache")]))

\* the dict clear_cache returns
Cleared(performer_count, search_count, favorites_count) ==
    [performer_cache_cleared |-> performer_count,
     search_cache_cleared |-> search_count,
     favorites_cache_cleared |-> favorites_count]
ClearFailed == [error |-> "sqlite3.Error"]

\* fault variant: the counts leave out the rows that have expired
ClearCacheCountValid(st, pc) ==
    LET Valid(tb) == {x \in st.cache[tb] : IsCacheValid(x.timestamp, st.now, pc)}
    IN IF st.disk \cap {"select", "delete"} # {}
       THEN [result |-> ClearFailed, st |-> st]
       ELSE [result |-> Cleared(Cardinality(Valid("performer_cache")),
                                Cardinality(Valid("search_cache")),
                                Cardinality(Valid("favorites_cache"))),
             st |-> [st EXCEPT !.cache = EmptyCache]]

\* clear_cache: [result, st]; pc is not looked at. A failing statement
\* leaves the file as it was and the error is returned in the dict
ClearCache(st, pc) ==
    IF st.disk \cap {"select", "delete"} # {}
    THEN [result |-> ClearFailed, st |-> st]
    ELSE [result |-> Cleared(Cardinality(st.cache["performer_cache"]),
                             Cardinality(st.cache["search_cache"]),
                             Cardinality(st.cache["favorites_cache"])),
          st |-> [st EXCEPT !.cache = EmptyCache]]

\* ------------------------------------------------------------------ merge
\* an insertion-ordered dict as a sequence of <<key, value>> with distinct keys
DictKeys(d) == {d[i][1] : i \in 1..Len(d)}
DictAt(d, key) == d[CHOOSE i \in 1..Len(d) : d[i][1] = key][2]

\* sorted(sources_config.keys(), key=lambda x: sources_config[x]['precedence'])
RECURSIVE SortByPrecedence(_, _)
SortByPrecedence(srcs, names) ==
    IF names = {} THEN <<>>
    ELSE LET first == CHOOSE s \in names :
                        \A o \in names : srcs[s].precedence <= srcs[o].precedence
         IN <<first>> \o SortByPrecedence(srcs, names \ {first})

\* fault variant: sorted(sources_config.keys()) without the key, by name
GetSourcePrecedenceListByName(srcs) ==
    LET Alphabetical(s) == CASE s = "fansdb" -> 1 [] s = "stashdb" -> 2 [] OTHER -> 3
    IN SortByPrecedence([s \in DOMAIN srcs |-> [precedence |-> Alphabetical(s)]],
                        DOMAIN srcs)

GetSourcePrecedenceList(srcs) == SortByPrecedence(srcs, DOMAIN srcs)

Reverse(q) == [i \in 1..Len(q) |-> q[Len(q) + 1 - i]]

\* combined_data.update(source_data) for each source of `order` that the
\* map holds with a truthy record
RECURSIVE ApplySources(_, _, _)
ApplySources(dataBySource, order, combined) ==
    IF order = <<>> THEN combined
    ELSE LET source == Head(order)
             next == IF source \in DictKeys(dataBySource)
                        /\ Truthy(DictAt(dataBySource, source))
                     THEN DictAt(dataBySource, source).o @@ combined
                     ELSE combined
         IN ApplySources(dataBySource, Tail(order), next)

\* fault variant: the map is walked in its own order
MergeInMapOrder(dataBySource, source_precedence) ==
    JObj(ApplySources(dataBySource,
                      [i \in 1..Len(dataBySource) |-> dataBySource[i][1]],
                      EmptyDict))

\* merge_performer_data
MergePerformerData(dataBySource, source_precedence) ==
    JObj(ApplySources(dataBySource, Reverse(source_precedence), EmptyDict))

NotMerged == [t |-> "none"]

\* --------------------------------------------- image and identity lists
\* the loop of extract_image_url: the url of the first image of the first
\* source of source_precedence whose record is truthy and whose first image
\* has a truthy url; None when there is none
RECURSIVE ImageLoop(_, _)
ImageLoop(dataBySource, source_precedence) ==
    IF source_precedence = <<>> THEN JNull
    ELSE LET source == Head(source_precedence)
             performer_data == IF source \in DictKeys(dataBySource)
                               THEN DictAt(dataBySource, source) ELSE JNull
             images == IF Truthy(performer_data) /\ performer_data.t = "obj"
                       THEN IF "images" \in DOMAIN performer_data.o
                            THEN performer_data.o["images"] ELSE JList(<<>>)
                       ELSE JNull
             image_url == IF Truthy(images) THEN DictGet(images.l[1], "url") ELSE JNull
         IN IF Truthy(image_url) THEN image_url
            ELSE ImageLoop(dataBySource, Tail(source_precedence))

\* fault variant: only the source of rank 1 is looked at
ExtractImageUrlTopOnly(dataBySource, source_precedence) ==
    ImageLoop(dataBySource, SubSeq(source_precedence, 1, 1))

\* extract_image_url
ExtractImageUrl(dataBySource, source_precedence) ==
    ImageLoop(dataBySource, source_precedence)

\* a stash_id entry of a local performer
StashId(stash_id, endpoint) == [stash_id |-> stash_id, endpoint |-> endpoint]

\* any(endpoint == source_endpoint and stash_id == performer_data['id'])
AlreadyExists(stash_ids_list, source_endpoint, id) ==
    \E i \in 1..Len(stash_ids_list) :
       stash_ids_list[i].endpoint = source_endpoint /\ stash_ids_list[i].stash_id = id

\* fault variant: an entry is appended whether or not the pair is listed
AppendNewStashIdsNoCheck(stash_ids_list, source, performer_data, srcs) ==
    IF Truthy(performer_data) /\ Truthy(DictGet(performer_data, "id"))
    THEN Append(stash_ids_list, StashId(performer_data.o["id"].s, srcs[source].url))
    ELSE stash_ids_list

\* one iteration of `for source, performer_data in ...items()`
AppendNewStashIds(stash_ids_list, source, performer_data, srcs) ==
    IF Truthy(performer_data) /\ Truthy(DictGet(performer_data, "id"))
    THEN LET source_endpoint == srcs[source].url
             id == performer_data.o["id"].s
         IN IF AlreadyExists(stash_ids_list, source_endpoint, id)
            THEN stash_ids_list
            ELSE Append(stash_ids_list, StashId(id, source_endpoint))
    ELSE stash_ids_list

RECURSIVE StashIdsLoop(_, _, _)
StashIdsLoop(stash_ids_list, dataBySource, srcs) ==
    IF dataBySource = <<>> THEN stash_ids_list
    ELSE StashIdsLoop(AppendNewStashIds(stash_ids_list, Head(dataBySource)[1],
                                        Head(dataBySource)[2], srcs),
                      Tail(dataBySource), srcs)

\* fault variant: the existing entries are dropped
BuildStashIdsListFromEmpty(existing_stash_ids, dataBySource, srcs) ==
    StashIdsLoop(<<>>, dataBySource, srcs)

\* build_stash_ids_list
BuildStashIdsList(existing_stash_ids, dataBySource, srcs) ==
    StashIdsLoop(existing_stash_ids, dataBySource, srcs)

NotReconciled == [pass |-> 0, image |-> JNull, stash_ids |-> <<>>, again |-> <<>>]

\* ------------------------------------------------------------------ inputs
\* the search term, also used as performer id
Terms == {"Jane Doe"}
\* string-hash seeds a Python process may start with
Seeds == {1, 2}
\* (use_cache, retries) as the callers of make_request pass them:
\* search_performer and test_connection
CallModes == {[use_cache |-> TRUE, retries |-> DefaultRetries],
              [use_cache |-> FALSE, retries |-> TestRetries]}
\* a configured source and one without an endpoint
CallSources == {"stashdb", "fansdb"}
\* how many leading attempts the transport fails
FailureCounts(retries) == {0, 1, retries}

Candidate == JObj(("id" :> JStr("p1")) @@ ("name" :> JStr("Jane Doe")))
PerformerRecord ==
    JObj(("id" :> JStr("p1")) @@ ("name" :> JStr("Jane Doe")) @@ ("height" :> JNull)
         @@ ("images" :> JList(<<>>)))

SearchData ==
    {JNull,
     JObj(EmptyDict),
     JObj("searchPerformer" :> JList(<<Candidate>>))}

FindData ==
    {JNull,
     JObj("findPerformer" :> JNull),
     JObj("findPerformer" :> PerformerRecord)}


\* an answer carries data, or an error list next to (partial) data
Responses(D) ==
    {Response(TRUE, d) : d \in {x \in D : Truthy(x) /\ \A k \in DOMAIN x.o : Truthy(x.o[k])}} \cup {Response(FALSE, d) : d \in D}

\* the plugin settings a host may hold
SettingsChoices ==
    {EmptyDict,
     [rateLimit |-> 0, cacheExpirationHours |-> 1],
     [rateLimitSeconds |-> 0]}

EndpointOf(s) == [url |-> EndpointUrl(s), api_key |-> "key"]
EndpointChoices == {[s \in {"stashdb", "tpdb"} |-> EndpointOf(s)]}

NoCall ==
    [op |-> "none", query |-> "", variables |-> "", source |-> "",
     use_cache |-> FALSE, retries |-> 0, seed |-> 0, start |-> 0,
     result |-> JNull, log |-> <<>>, read |-> NoRead]

Args(query, variables, source, use_cache, retries, k, resp) ==
    [query |-> query, variables |-> variables, source |-> source,
     use_cache |-> use_cache, retries |-> retries, k |-> k, resp |-> resp,
     pc |-> PluginConfig, srcs |-> Sources, seed |-> hashSeed]

Begin ==
    [now |-> now, cache |-> cache, log |-> <<>>, puts |-> lastPut, read |-> NoRead,
     disk |-> {}]

Record(op, a, r) ==
    [op |-> op, query |-> a.query, variables |-> a.variables, source |-> a.source,
     use_cache |-> a.use_cache, retries |-> a.retries, seed |-> a.seed,
     start |-> now, result |-> r.result, log |-> r.st.log, read |-> r.st.read]

Finish(op, a, r) ==
    /\ cache' = r.st.cache
    /\ now' = r.st.now
    /\ lastPut' = r.st.puts
    /\ lastCall' = Record(op, a, r)
    /\ calls' = calls + 1
    /\ UNCHANGED <<hostSettings, endpoints, hashSeed, ticks, mergeVars, reconVars, syncVars, buildVars, favVars>>

\* ------------------------------------------------------------ orchestrator
\* str.lower() on the names that occur
Lower(name) ==
    CASE name \in {"Jane Doe", "JANE DOE", "jane doe"} -> "jane doe"
      [] name \in {"Jane Roe", "jane roe"} -> "jane roe"
      [] OTHER -> name

\* list(self.sources.keys()): the sources dict keeps the order in which the
\* names were first inserted, the order of the precedence list
RECURSIVE FirstOccurrences(_, _)
FirstOccurrences(order, seen) ==
    IF order = <<>> THEN <<>>
    ELSE IF Head(order) \in seen THEN FirstOccurrences(Tail(order), seen)
    ELSE <<Head(order)>> \o FirstOccurrences(Tail(order), seen \cup {Head(order)})

GetEnabledSources(pc, eps) ==
    SelectSeq(FirstOccurrences(pc.sourcePrecedence, {}),
              LAMBDA s : s \in DOMAIN BuildSourcesConfig(pc, eps))

\* get_existing_stash_ids: source -> stash_id, by the endpoint url; a later
\* entry of the same endpoint overwrites an earlier one
GetExistingStashIds(performer, srcs) ==
    LET ids == performer.stash_ids
        Matching(s) == {i \in 1..Len(ids) : ids[i].endpoint = srcs[s].url}
        Max(S) == CHOOSE m \in S : \A n \in S : n <= m
    IN [s \in {x \in DOMAIN srcs : Matching(x) # {}} |-> ids[Max(Matching(s))].stash_id]

\* find_exact_matches: the list comprehension raises on a candidate whose
\* name is not a string
FindExactMatches(search_results, search_term) ==
    IF \E i \in 1..Len(search_results) : DictGet(search_results[i], "name").t # "str"
    THEN [raised |-> TRUE, matches |-> <<>>]
    ELSE [raised |-> FALSE,
          matches |-> SelectSeq(search_results,
                                LAMBDA c : Lower(c.o["name"].s) = Lower(search_term))]

\* the remote side of one run: per source, whether the transport fails every
\* attempt, and the answers to the search and to the find-by-id operation
Transport(env, source) == IF env[source].down THEN DefaultRetries ELSE 0

\* one call of a client method as the orchestrator sees it
ClientCall(op, source, arg, result, attempts) ==
    [op |-> op, source |-> source, arg |-> arg, result |-> result, attempts |-> attempts]

NetworkAttempts(log) == Len(SelectSeq(log, LAMBDA ev : ev.e = "attempt"))

\* graphql.search_performer(search_term, source): [result, os]
SearchPerformerCall(os, search_term, source, env) ==
    LET a == Args("SearchPerformer", search_term, source, TRUE, DefaultRetries,
                  Transport(env, source), env[source].search)
        Result(data) == IF Truthy(data)
                        THEN IF "searchPerformer" \in DOMAIN data.o
                             THEN data.o["searchPerformer"] ELSE JList(<<>>)
                        ELSE JNull
    IN With(MakeRequestRun(os.st, a), LAMBDA r :
         [result |-> Result(r.result),
          os |-> [os EXCEPT !.st = r.st,
                            !.trace = Append(@, ClientCall("search_performer", source,
                                        search_term, Result(r.result),
                                        NetworkAttempts(r.st.log) - NetworkAttempts(os.st.log)))]])

\* graphql.find_performer(performer_id, source): [result, os]
FindPerformerCall(os, performer_id, source, env) ==
    LET a == Args("FindPerformer", performer_id, source, FALSE, DefaultRetries,
                  Transport(env, source), env[source].find)
    IN With(FindPerformerRun(os.st, performer_id, a), LAMBDA r :
         [result |-> r.result,
          os |-> [os EXCEPT !.st = r.st,
                            !.trace = Append(@, ClientCall("find_performer", source,
                                        performer_id, r.result,
                                        NetworkAttempts(r.st.log) - NetworkAttempts(os.st.log)))]])

\* fault variant: the first exact match is taken whenever there is one
SearchAndMatchFirstOfMany(os, performer_name, source, env) ==
    With(SearchPerformerCall(os, performer_name, source, env), LAMBDA sr :
       IF ~Truthy(sr.result)
       THEN [raised |-> FALSE, result |-> JNull, os |-> sr.os]
       ELSE With(FindExactMatches(sr.result.l, performer_name), LAMBDA m :
               IF m.raised
               THEN [raised |-> TRUE, result |-> JNull, os |-> sr.os]
               ELSE IF Len(m.matches) >= 1
                    THEN With(FindPerformerCall(sr.os, m.matches[1].o["id"].s,
                                                source, env),
                              LAMBDA fr : [raised |-> FALSE, result |-> fr.result,
                                           os |-> fr.os])
                    ELSE [raised |-> FALSE, result |-> JNull, os |-> sr.os]))

\* _search_and_match_performer: [raised, result, os]
SearchAndMatchPerformer(os, performer_name, source, env) ==
    With(SearchPerformerCall(os, performer_name, source, env), LAMBDA sr :
       IF ~Truthy(sr.result)
       THEN [raised |-> FALSE, result |-> JNull, os |-> sr.os]
       ELSE With(FindExactMatches(sr.result.l, performer_name), LAMBDA m :
               IF m.raised
               THEN [raised |-> TRUE, result |-> JNull, os |-> sr.os]
               ELSE IF Len(m.matches) = 1
                    THEN With(FindPerformerCall(sr.os, m.matches[1].o["id"].s,
                                                source, env),
                              LAMBDA fr : [raised |-> FALSE, result |-> fr.result,
                                           os |-> fr.os])
                    ELSE [raised |-> FALSE, result |-> JNull, os |-> sr.os]))

\* fault variant: a fetch by id that yields nothing falls back to the name
\* search
ProcessSourceSearchAfterFetch(os, source, performer, existing, enable_name_search, env) ==
    IF source \in DOMAIN existing
    THEN With(FindPerformerCall(os, existing[source], source, env), LAMBDA fr :
            IF Truthy(fr.result) \/ ~enable_name_search
            THEN [raised |-> FALSE, result |-> fr.result, os |-> fr.os]
            ELSE SearchAndMatchPerformer(fr.os, performer.name, source, env))
    ELSE IF enable_name_search
         THEN SearchAndMatchPerformer(os, performer.name, source, env)
         ELSE [raised |-> FALSE, result |-> JNull, os |-> os]

\* the try-body of the source loop of update_performer_data
ProcessSource(os, source, performer, existing, enable_name_search, env) ==
    IF source \in DOMAIN existing
    THEN With(FindPerformerCall(os, existing[source], source, env),
              LAMBDA fr : [raised |-> FALSE, result |-> fr.result, os |-> fr.os])
    ELSE IF enable_name_search
         THEN SearchAndMatchPerformer(os, performer.name, source, env)
         ELSE [raised |-> FALSE, result |-> JNull, os |-> os]

\* fault variant: a source that fails ends the loop
RemainingSourcesStopOnFailure(sources, r) ==
    IF r.raised \/ ~Truthy(r.result) THEN <<>> ELSE Tail(sources)

\* the loop goes on to the next source, after an exception too (`continue`)
RemainingSources(sources, r) == Tail(sources)

\* for source in self.config.get_enabled_sources()
RECURSIVE SourceLoop(_, _, _, _, _, _)
SourceLoop(os, sources, performer, existing, enable_name_search, env) ==
    IF sources = <<>> THEN os
    ELSE LET source == Head(sources)
             After(r) == IF r.raised
                         THEN [r.os EXCEPT !.raisedIn = @ \cup {source}]
                         ELSE IF Truthy(r.result)
                              THEN [r.os EXCEPT !.data = Append(@, <<source, r.result>>)]
                              ELSE r.os
         IN With(ProcessSource(os, source, performer, existing, enable_name_search, env),
                 LAMBDA r :
                   With(After(r), LAMBDA os1 :
                     SourceLoop(os1, RemainingSources(sources, r), performer, existing,
                                enable_name_search, env)))

\* combined_data.get(key, default)
GetOr(d, key, default) == IF key \in DOMAIN d.o THEN d.o[key] ELSE default

\* a value inside an f-string; numbers are held as their decimal text
Format(v) == CASE v.t = "str" -> v.s [] v.t = "null" -> "None" [] OTHER -> ""

\* gender = combined_data.get('gender'); not in ['MALE', 'FEMALE'] -> None
Gender(combined_data) ==
    LET gender == GetOr(combined_data, "gender", JNull)
    IN IF gender \in {JStr("MALE"), JStr("FEMALE")} THEN gender ELSE JNull

\* the career length string of build_performer_update_data
CareerLength(combined_data) ==
    LET start_year == GetOr(combined_data, "career_start_year", JStr(""))
        end_year == GetOr(combined_data, "career_end_year", JStr(""))
    IN IF Truthy(end_year)
       THEN JStr(Format(start_year) \o "-" \o Format(end_year))
       ELSE IF Truthy(start_year) THEN JStr(Format(start_year)) ELSE JNull

\* build_performer_update_data, the attributes the checks look at:
\* set(None) raises when the merged aliases are null
BuildPerformerUpdateData(combined_data, performer, image_url, stash_ids) ==
    IF "aliases" \in DOMAIN combined_data.o /\ combined_data.o["aliases"].t # "list"
    THEN [raised |-> TRUE, payload |-> EmptyDict]
    ELSE [raised |-> FALSE,
          payload |-> [name |-> IF "name" \in DOMAIN combined_data.o
                                THEN combined_data.o["name"] ELSE JStr(performer.name),
                       gender |-> Gender(combined_data),
                       height_cm |-> DictGet(combined_data, "height"),
                       career_length |-> CareerLength(combined_data),
                       image |-> image_url,
                       stash_ids |-> stash_ids]]

\* what stash.update_performer does with a payload: it returns the updated
\* performer, returns a result that has no name, returns nothing, or raises
CatalogOutcomes == {"ok", "no_name", "none", "raises"}

\* _update_performer: the collaborator's result, None when it raised
UpdatePerformer(outcome) == IF outcome \in {"none", "raises"} THEN "none" ELSE outcome

NoUpdate == [called |-> FALSE, payload |-> EmptyDict, outcome |-> "", after |-> 0]

SyncResult(updated, sources_used, message) ==
    [updated |-> updated, sources_used |-> sources_used, message |-> message]

\* fault variant: an empty map is merged and written like any other
NothingFetchedNever(dataBySource) == FALSE

\* `if not performer_data_by_source`
NothingFetched(dataBySource) == dataBySource = <<>>

\* update_performer_data from the end of the source loop on, with the
\* outcome of the catalog update should it be called: [raised, result,
\* update, os]; `after` is the number of client calls made before the update
UpdateFromData(os, performer, outcome) ==
    LET source_precedence == GetSourcePrecedenceList(Sources)
        sources_used == [i \in 1..Len(os.data) |-> os.data[i][1]] IN
    IF NothingFetched(os.data)
    THEN [raised |-> FALSE, result |-> SyncResult(FALSE, <<>>, "No new data found"),
          update |-> NoUpdate, os |-> os]
    ELSE
    LET combined_data == MergePerformerData(os.data, source_precedence)
        image_url == IF ConfigGet(PluginConfig, "performerImageUpdate", TRUE)
                     THEN ExtractImageUrl(os.data, source_precedence) ELSE JNull
        combined_stash_ids == BuildStashIdsList(performer.stash_ids, os.data, Sources)
        b == BuildPerformerUpdateData(combined_data, performer, image_url,
                                      combined_stash_ids)
        update == [called |-> TRUE, payload |-> b.payload, outcome |-> outcome,
                   after |-> Len(os.trace)]
    IN IF b.raised
       THEN [raised |-> TRUE, result |-> SyncResult(FALSE, <<>>, ""),
             update |-> NoUpdate, os |-> os]
       ELSE CASE UpdatePerformer(outcome) = "ok" ->
                   [raised |-> FALSE, result |-> SyncResult(TRUE, sources_used, "Updated"),
                    update |-> update, os |-> os]
              [] UpdatePerformer(outcome) = "none" ->
                   [raised |-> FALSE,
                    result |-> SyncResult(FALSE, sources_used, "Update operation failed"),
                    update |-> update, os |-> os]
              [] OTHER ->
                   [raised |-> FALSE,
                    result |-> SyncResult(FALSE, sources_used, "error"),
                    update |-> update, os |-> os]

\* fault variant: the catalog is updated as soon as the first enabled source
\* has yielded data, and the other sources are queried afterwards
UpdatePerformerDataRunEager(st, performer, enable_name_search, env, outcome) ==
    LET os0 == [st |-> st, trace |-> <<>>, data |-> <<>>, raisedIn |-> {}]
        existing == GetExistingStashIds(performer, Sources)
        enabled == GetEnabledSources(PluginConfig, endpoints)
        Rest(os) == SourceLoop(os, IF enabled = <<>> THEN <<>> ELSE Tail(enabled),
                               performer, existing, enable_name_search, env)
    IN With(SourceLoop(os0, IF enabled = <<>> THEN <<>> ELSE <<Head(enabled)>>,
                       performer, existing, enable_name_search, env), LAMBDA os1 :
         IF NothingFetched(os1.data)
         THEN With(Rest(os1), LAMBDA os : UpdateFromData(os, performer, outcome))
         ELSE With(UpdateFromData(os1, performer, outcome), LAMBDA r :
                With(Rest(os1), LAMBDA os : [r EXCEPT !.os = os])))

\* update_performer_data(performer, enable_name_search): the loop over the
\* enabled sources, then the merge and the catalog update
UpdatePerformerDataRun(st, performer, enable_name_search, env, outcome) ==
    LET os0 == [st |-> st, trace |-> <<>>, data |-> <<>>, raisedIn |-> {}]
        existing == GetExistingStashIds(performer, Sources)
    IN With(SourceLoop(os0, GetEnabledSources(PluginConfig, endpoints), performer,
                       existing, enable_name_search, env), LAMBDA os :
         UpdateFromData(os, performer, outcome))

NoRemote == [s \in {} |-> [down |-> FALSE]]

\* the run of update_all_performers
IdleRun ==
    [pc |-> "idle", performers |-> <<>>, total |-> 0, i |-> 0, processed |-> 0,
     updated |-> 0, errors |-> <<>>, rejected |-> {}, updates |-> <<>>,
     result |-> EmptyDict]

NoEntity ==
    [performer |-> [id |-> "", name |-> "", stash_ids |-> <<>>], raised |-> FALSE,
     result |-> SyncResult(FALSE, <<>>, ""), update |-> NoUpdate, trace |-> <<>>,
     data |-> <<>>, raisedIn |-> {}, log |-> <<>>]

\* build_performer_update_data has not run
NotBuilt == [built |-> FALSE]

\* no favorites sync has run
IdleFav == [done |-> FALSE, n |-> 0]

\* ---------------------------------------------------------- favorites sync
\* the setting that allows creating a local entity of a kind
AutoCreateFlag(kind) ==
    IF kind = "performers" THEN "autoCreatePerformers" ELSE "autoCreateSites"

\* favorite.get(key, default)
FavoriteName(favorite) == GetOr(favorite, "name", JStr("Unknown"))
FavoriteId(favorite) == GetOr(favorite, "id", JStr("Unknown"))

\* the first element of a list that satisfies Test, 0 for None
FirstIndex(list, Test(_)) ==
    IF \E i \in 1..Len(list) : Test(list[i])
    THEN CHOOSE i \in 1..Len(list) : Test(list[i]) /\ \A j \in 1..(i - 1) : ~Test(list[j])
    ELSE 0

\* _find_local_performer_by_stash_id / _find_local_studio_by_stash_id: None
\* when the catalog listing raises or the source has no configuration
FindLocalByStashId(entities, stash_id, source, srcs, listing_raises) ==
    IF listing_raises \/ source \notin DOMAIN srcs THEN 0
    ELSE FirstIndex(entities, LAMBDA e :
           \E j \in 1..Len(e.stash_ids) :
              /\ e.stash_ids[j].endpoint = srcs[source].url
              /\ JStr(e.stash_ids[j].stash_id) = stash_id)

\* _find_local_performer_by_name / _find_local_studio_by_name: None when the
\* listing raises, and when name.lower() raises on a name that is no string
FindLocalByName(entities, name, listing_raises) ==
    IF listing_raises \/ (entities # <<>> /\ name.t # "str") THEN 0
    ELSE FirstIndex(entities, LAMBDA e : Lower(e.name) = Lower(name.s))

\* what the catalog does with a create and with an update
CreateOutcomes == {"ok", "none", "raises"}
MarkOutcomes == {"ok", "none", "raises"}

\* the catalog's entity for create_data
CreatedEntity(entities, name, stash_id, url) ==
    [id |-> Len(entities) + 1, name |-> Format(name), favorite |-> TRUE,
     stash_ids |-> <<StashId(Format(stash_id), url)>>]

FavoriteResult(synced, created, error) ==
    [synced |-> synced, created |-> created, error |-> error]

\* _sync_favorite_performer / _sync_favorite_site on the catalog's entities
\* of the kind: [result, lookups, create, mark, entities]
SyncFavoriteRun(kind, favorite, source, entities, pc, srcs, env) ==
    LET name == FavoriteName(favorite)
        id == FavoriteId(favorite)
        by_id == FindLocalByStashId(entities, id, source, srcs, env.id_listing_raises)
        by_name == FindLocalByName(entities, name, env.name_listing_raises)
        local == IF by_id # 0 THEN by_id ELSE by_name
        lookups == IF by_id # 0
                   THEN <<[by |-> "stash_id", raised |-> env.id_listing_raises]>>
                   ELSE <<[by |-> "stash_id", raised |-> env.id_listing_raises],
                          [by |-> "name", raised |-> env.name_listing_raises]>>
        NoCreate == [called |-> FALSE, outcome |-> ""]
        NoMark == [called |-> FALSE, outcome |-> "", id |-> 0]
        Out(result, create, mark, after) ==
            [result |-> result, lookups |-> lookups, create |-> create, mark |-> mark,
             entities |-> after]
    IN IF local = 0
       THEN IF ConfigGet(pc, AutoCreateFlag(kind), FALSE)
            THEN IF source \notin DOMAIN srcs
                 THEN Out(FavoriteResult(FALSE, FALSE, TRUE), NoCreate, NoMark, entities)
                 ELSE IF env.create = "ok"
                 THEN Out(FavoriteResult(TRUE, TRUE, FALSE),
                          [called |-> TRUE, outcome |-> env.create], NoMark,
                          Append(entities,
                                 CreatedEntity(entities, name, id, srcs[source].url)))
                 ELSE Out(FavoriteResult(FALSE, FALSE, TRUE),
                          [called |-> TRUE, outcome |-> env.create], NoMark, entities)
            ELSE Out(FavoriteResult(FALSE, FALSE, TRUE), NoCreate, NoMark, entities)
       ELSE IF entities[local].favorite
       THEN Out(FavoriteResult(FALSE, FALSE, FALSE), NoCreate, NoMark, entities)
       ELSE IF env.mark = "ok"
       THEN Out(FavoriteResult(TRUE, FALSE, FALSE), NoCreate,
                [called |-> TRUE, outcome |-> env.mark, id |-> entities[local].id],
                [entities EXCEPT ![local].favorite = TRUE])
       ELSE Out(FavoriteResult(FALSE, FALSE, TRUE), NoCreate,
                [called |-> TRUE, outcome |-> env.mark, id |-> entities[local].id],
                entities)

\* the return value of update_all_performers
RunResult(processed, total, updated, errors) ==
    [processed |-> processed, total |-> total, updated |-> updated, errors |-> errors]

\* fault variant: an entity whose processing raised is not counted as processed
IterationCountsSkipRaised(r, performer, result) ==
    IF result.raised
    THEN [r EXCEPT !.errors = Append(@, performer.id), !.i = @ + 1]
    ELSE [r EXCEPT !.updated = IF result.result.updated THEN @ + 1 ELSE @,
                   !.processed = @ + 1, !.i = @ + 1]

\* the body of `for performer in performers`, given what
\* update_performer_data did
IterationCounts(r, performer, result) ==
    IF result.raised
    THEN [r EXCEPT !.errors = Append(@, performer.id), !.processed = @ + 1, !.i = @ + 1]
    ELSE [r EXCEPT !.updated = IF result.result.updated THEN @ + 1 ELSE @,
                   !.processed = @ + 1, !.i = @ + 1]

\* ----------------------------------------------------------------- actions
Init ==
    /\ hostSettings \in SettingsChoices
    /\ endpoints \in EndpointChoices
    /\ cache = EmptyCache
    /\ now = 0
    /\ hashSeed = 1
    /\ lastCall = NoCall
    /\ lastPut = EmptyCache
    /\ calls = 0
    /\ ticks = 0
    /\ fetched = <<>>
    /\ merged = NotMerged
    /\ existingStashIds = <<>>
    /\ recon = NotReconciled
    /\ catalog = <<>>
    /\ remote = NoRemote
    /\ run = IdleRun
    /\ entity = NoEntity
    /\ payload = NotBuilt
    /\ fav = IdleFav

MakeRequest ==
    /\ calls < MaxCalls
    /\ \E source \in CallSources, term \in Terms, mode \in CallModes,
          resp \in Responses(SearchData) :
         \E k \in FailureCounts(mode.retries) :
            LET a == Args("SearchPerformer", term, source, mode.use_cache,
                          mode.retries, k, resp)
            IN \E r \in {MakeRequestRun(Begin, a)} : Finish("make_request", a, r)

\* update_performer_data calls find_performer for enabled sources only
FindPerformer ==
    /\ calls < MaxCalls
    /\ \E source \in CallSources \cap DOMAIN Sources, id \in Terms, resp \in Responses(FindData) :
         \E k \in FailureCounts(DefaultRetries) :
            LET a == Args("FindPerformer", id, source, FALSE, DefaultRetries, k, resp)
            IN \E r \in {FindPerformerRun(Begin, id, a)} : Finish("find_performer", a, r)

\* time passes between two calls
TickSteps == {(PluginConfig.cacheExpirationHours * SecondsPerHour) - 1,
              PluginConfig.cacheExpirationHours * SecondsPerHour}

Tick ==
    /\ 0 < calls /\ calls < MaxCalls
    /\ ticks < MaxTicks
    /\ \E d \in TickSteps : now' = now + d
    /\ ticks' = ticks + 1
    /\ UNCHANGED <<hostSettings, endpoints, cache, hashSeed, lastCall, lastPut, calls,
                   mergeVars, reconVars, syncVars, buildVars, favVars>>

\* the plugin process exits and the host starts a new one on the same cache
\* file: a new interpreter, a new string-hash seed
Restart ==
    /\ 0 < calls /\ calls < MaxCalls
    /\ \E s \in Seeds \ {hashSeed} : hashSeed' = s
    /\ UNCHANGED <<hostSettings, endpoints, cache, now, lastCall, lastPut, calls, ticks,
                   mergeVars, reconVars, syncVars, buildVars, favVars>>

Next == MakeRequest \/ FindPerformer \/ Tick \/ Restart

Spec == Init /\ [][Next]_vars

\* ------------------------------- the client on a cache file that may fail
\* the statements that fail during one call
Faults == {{}, {"select"}, {"delete"}, {"insert"}}

FavoriteTypes == {"performers", "sites"}
FavoritesQuery(favorite_type) ==
    IF favorite_type = "performers" THEN "Favorites" ELSE "FavoriteSites"

\* the answer to a favorites query: me { favorites { performers | sites } }
FavoritesData(favorite_type) ==
    JObj("me" :> JObj("favorites" :> JObj(favorite_type :> JList(<<Candidate>>))))

\* the answer of an account that has no favorites of the type
NoFavoritesData(favorite_type) ==
    JObj("me" :> JObj("favorites" :> JObj(favorite_type :> JList(<<>>))))

\* (failing attempts, answer) of the transport
StoreSearchAnswers ==
    {<<0, Response(FALSE, JObj("searchPerformer" :> JList(<<Candidate>>)))>>,
     <<0, Response(TRUE, JObj("searchPerformer" :> JList(<<Candidate>>)))>>,
     <<DefaultRetries, Response(FALSE, JNull)>>}
StoreFindAnswers ==
    {<<0, Response(FALSE, JObj("findPerformer" :> PerformerRecord))>>,
     <<0, Response(FALSE, JObj("findPerformer" :> JNull))>>,
     <<0, Response(TRUE, JObj("findPerformer" :> PerformerRecord))>>,
     <<DefaultRetries, Response(FALSE, JNull)>>}
StoreFavoritesAnswers(favorite_type) ==
    {<<0, Response(FALSE, FavoritesData(favorite_type))>>,
     <<0, Response(FALSE, NoFavoritesData(favorite_type))>>,
     <<0, Response(FALSE, JObj("me" :> JNull))>>,
     <<0, Response(TRUE, FavoritesData(favorite_type))>>,
     <<DefaultRetries, Response(FALSE, JNull)>>}

\* the calls of one method: every answer on a working file, and some of
\* the answers under every fault
Down == <<DefaultRetries, Response(FALSE, JNull)>>
WithFaults(answers, faulted) ==
    {c \in answers \X Faults : c[2] = {} \/ c[1] \in faulted}

\* rows that earlier runs left in the cache file: table, key, source,
\* identifier, payload
PerformerEntry(source) ==
    [tb |-> "performer_cache", id |-> GetCacheKey(source, "performer", "Jane Doe"),
     source |-> source, sub |-> "Jane Doe", payload |-> PerformerRecord]
FavoritesEntry(source, favorite_type) ==
    [tb |-> "favorites_cache", id |-> GetCacheKey(source, "favorites", favorite_type),
     source |-> source, sub |-> favorite_type, payload |-> JList(<<Candidate>>)]

\* the cache file that holds the entries, each written at its time
StoredAt(entries) ==
    [tb \in Tables |->
       {Row(e[1].id, e[1].source, e[1].sub, e[1].payload, e[2]) :
          e \in {x \in entries : x[1].tb = tb}}]
PutsOf(entries) ==
    [tb \in Tables |->
       {[id |-> e[1].id, payload |-> e[1].payload, at |-> e[2]] :
          e \in {x \in entries : x[1].tb = tb}}]

StoreStart == SecondsPerHour

\* nothing; rows that have all expired; expired rows next to fresh ones
\* (search_cache is empty in every file: no write to it succeeds)
StoredEntries ==
    {{},
     {<<PerformerEntry("stashdb"), 0>>, <<PerformerEntry("tpdb"), 0>>,
      <<FavoritesEntry("stashdb", "performers"), 0>>,
      <<FavoritesEntry("stashdb", "sites"), 0>>},
     {<<PerformerEntry("stashdb"), StoreStart>>, <<PerformerEntry("tpdb"), 0>>,
      <<FavoritesEntry("stashdb", "performers"), 0>>,
      <<FavoritesEntry("stashdb", "sites"), StoreStart>>}}

InitStore ==
    /\ hostSettings = [cacheExpirationHours |-> 1]
    /\ endpoints \in EndpointChoices
    /\ \E entries \in StoredEntries :
         /\ cache = StoredAt(entries)
         /\ lastPut = PutsOf(entries)
    /\ now = StoreStart
    /\ hashSeed = 1
    /\ lastCall = NoCall
    /\ calls = 0
    /\ ticks = 0
    /\ fetched = <<>>
    /\ merged = NotMerged
    /\ existingStashIds = <<>>
    /\ recon = NotReconciled
    /\ catalog = <<>>
    /\ remote = NoRemote
    /\ run = IdleRun
    /\ entity = NoEntity
    /\ payload = NotBuilt
    /\ fav = IdleFav

BeginOn(disk) == [Begin EXCEPT !.disk = disk]

\* the call as Finish records it, with what the transport and the file did
FinishOn(op, a, r, disk, raised) ==
    /\ cache' = r.st.cache
    /\ now' = r.st.now
    /\ lastPut' = r.st.puts
    /\ lastCall' = Record(op, a, r)
                     @@ [k |-> a.k, resp |-> a.resp, disk |-> disk, raised |-> raised,
                         held |-> IF r.st.read.done
                                  THEN {x \in cache[r.st.read.tb] : x.id = r.st.read.id}
                                  ELSE {}]
    /\ calls' = calls + 1
    /\ UNCHANGED <<hostSettings, endpoints, hashSeed, ticks, mergeVars, reconVars,
                   syncVars, buildVars, favVars>>

\* search_performer's make_request
StoreRequest ==
    /\ calls < MaxCalls
    /\ \E c \in WithFaults(StoreSearchAnswers,
                            {<<0, Response(FALSE, JObj("searchPerformer" :> JList(<<Candidate>>)))>>}) :
         LET a == Args("SearchPerformer", "Jane Doe", "stashdb", TRUE, DefaultRetries,
                       c[1][1], c[1][2])
         IN \E r \in {MakeRequestRun(BeginOn(c[2]), a)} :
              FinishOn("make_request", a, r, c[2], FALSE)

StoreFind ==
    /\ calls < MaxCalls
    /\ \E c \in WithFaults(StoreFindAnswers,
                            {<<0, Response(FALSE, JObj("findPerformer" :> PerformerRecord))>>, Down}) :
         LET a == Args("FindPerformer", "Jane Doe", "stashdb", FALSE, DefaultRetries,
                       c[1][1], c[1][2])
         IN \E r \in {FindPerformerRun(BeginOn(c[2]), "Jane Doe", a)} :
              FinishOn("find_performer", a, r, c[2], FALSE)

StoreFavorites ==
    /\ calls < MaxCalls
    /\ \E favorite_type \in FavoriteTypes :
         \E c \in WithFaults(StoreFavoritesAnswers(favorite_type),
                              {<<0, Response(FALSE, FavoritesData(favorite_type))>>}) :
           LET a == Args(FavoritesQuery(favorite_type), favorite_type, "stashdb", FALSE,
                         DefaultRetries, c[1][1], c[1][2])
           IN \E r \in {GetFavoritesRun(BeginOn(c[2]), favorite_type, a)} :
                FinishOn("get_favorites", a, r, c[2], r.raised)

StoreClear ==
    /\ calls < MaxCalls
    /\ \E disk \in Faults :
         LET a == Args("", "", "", FALSE, 0, 0, Response(FALSE, JNull))
         IN \E r \in {ClearCache(BeginOn(disk), PluginConfig)} :
              FinishOn("clear_cache", a, r, disk, FALSE)

NextStore == StoreRequest \/ StoreFind \/ StoreFavorites \/ StoreClear \/ Tick

SpecStore == InitStore /\ [][NextStore]_vars

\* ------------------------------------------------- merge, as a function
AttributeValues == {JStr(CASE i = 1 -> "165" [] i = 2 -> "170" [] i = 3 -> "175"
                           [] OTHER -> "180") : i \in 1..NumValues}
ExternalId(source) ==
    CASE source = "stashdb" -> "s1" [] source = "tpdb" -> "t1" [] OTHER -> "f1"

\* a find-by-id record: every queried attribute is present, unset ones null
FetchedRecord(source, country, height) ==
    JObj(("id" :> JStr(ExternalId(source))) @@ ("country" :> country)
         @@ ("height" :> height))

Nullable == {JNull} \cup AttributeValues

FetchedChoices ==
    LET Pick == SourceNames \X Nullable \X Nullable
        Lists == UNION {[1..n -> Pick] : n \in 0..Cardinality(SourceNames)}
    IN {[i \in 1..Len(q) |-> <<q[i][1], FetchedRecord(q[i][1], q[i][2], q[i][3])>>] :
          q \in {l \in Lists : \A i, j \in 1..Len(l) : i # j => l[i][1] # l[j][1]}}

PrecedenceChoices ==
    {q \in [1..Cardinality(SourceNames) -> SourceNames] :
       \A i, j \in 1..Len(q) : i # j => q[i] # q[j]}

AllEndpoints == [s \in SourceNames |-> EndpointOf(s)]

InitMerge ==
    /\ hostSettings \in {[sourcePrecedence |-> q] : q \in PrecedenceChoices}
    /\ endpoints = AllEndpoints
    /\ cache = EmptyCache
    /\ now = 0
    /\ hashSeed = 1
    /\ lastCall = NoCall
    /\ lastPut = EmptyCache
    /\ calls = 0
    /\ ticks = 0
    /\ fetched \in FetchedChoices
    /\ merged = NotMerged
    /\ existingStashIds = <<>>
    /\ recon = NotReconciled
    /\ catalog = <<>>
    /\ remote = NoRemote
    /\ run = IdleRun
    /\ entity = NoEntity
    /\ payload = NotBuilt
    /\ fav = IdleFav

\* update_performer_data: the merge of the fetched records under the
\* registry's precedence list
Merge ==
    /\ merged = NotMerged
    /\ merged' = MergePerformerData(fetched, GetSourcePrecedenceList(Sources))
    /\ UNCHANGED <<hostSettings, endpoints, clientVars, fetched, reconVars, syncVars, buildVars, favVars>>

NextMerge == Merge

SpecMerge == InitMerge /\ [][NextMerge]_vars

\* ------------------------- image and identity lists, as functions
AltExternalId(source) ==
    CASE source = "stashdb" -> "s2" [] source = "tpdb" -> "t2" [] OTHER -> "f2"

ImageUrlOf(source) ==
    CASE source = "stashdb" -> "https://cdn.stashdb.org/images/a"
      [] source = "tpdb" -> "https://cdn.theporndb.net/images/b"
      [] OTHER -> "https://cdn.fansdb.cc/images/c"

\* an element of a record's images { id url }
Image(url) == JObj(("id" :> JStr("img")) @@ ("url" :> JStr(url)))

\* find-by-id records of a source, as far as id and images go
ReconRecords(source) ==
    {JObj(("id" :> JStr(ExternalId(source)))
          @@ ("images" :> JList(<<Image(ImageUrlOf(source)), Image("https://cdn/second")>>))),
     JObj(("id" :> JStr(ExternalId(source))) @@ ("images" :> JList(<<>>))),
     JObj(("id" :> JStr(AltExternalId(source))) @@ ("images" :> JList(<<Image("")>>))),
     JObj(("id" :> JNull) @@ ("images" :> JList(<<Image(ImageUrlOf(source))>>))),
     JObj(("id" :> JStr(ExternalId(source))) @@ ("images" :> JNull))}

ReconFetchedChoices ==
    LET Pick == UNION {{<<s, r>> : r \in ReconRecords(s)} : s \in SourceNames}
        Lists == UNION {[1..n -> Pick] : n \in 0..Cardinality(SourceNames)}
    IN {l \in Lists : \A i, j \in 1..Len(l) : i # j => l[i][1] # l[j][1]}

\* stash_ids lists a local performer may hold
ExistingChoices ==
    {<<>>,
     <<StashId("s1", EndpointUrl("stashdb"))>>,
     <<StashId("t2", EndpointUrl("tpdb"))>>,
     <<StashId("s2", EndpointUrl("stashdb")), StashId("t1", EndpointUrl("tpdb"))>>,
     <<StashId("x1", "https://example.org/graphql"), StashId("f1", EndpointUrl("fansdb"))>>}

InitRecon ==
    /\ hostSettings \in {[sourcePrecedence |-> q] : q \in PrecedenceChoices}
    /\ endpoints = AllEndpoints
    /\ cache = EmptyCache
    /\ now = 0
    /\ hashSeed = 1
    /\ lastCall = NoCall
    /\ lastPut = EmptyCache
    /\ calls = 0
    /\ ticks = 0
    /\ fetched \in ReconFetchedChoices
    /\ merged = NotMerged
    /\ existingStashIds \in ExistingChoices
    /\ recon = NotReconciled
    /\ catalog = <<>>
    /\ remote = NoRemote
    /\ run = IdleRun
    /\ entity = NoEntity
    /\ payload = NotBuilt
    /\ fav = IdleFav

\* update_performer_data: the image and the stash_ids list of the update
Reconcile ==
    /\ recon.pass = 0
    /\ recon' = [pass |-> 1,
                 image |-> ExtractImageUrl(fetched, GetSourcePrecedenceList(Sources)),
                 stash_ids |-> BuildStashIdsList(existingStashIds, fetched, Sources),
                 again |-> <<>>]
    /\ UNCHANGED <<hostSettings, endpoints, clientVars, mergeVars, existingStashIds,
                   syncVars, buildVars, favVars>>

\* the next update of the same performer, whose stash_ids are now the list
\* written by the first, with the same records fetched
ReconcileAgain ==
    /\ recon.pass = 1
    /\ recon' = [recon EXCEPT !.pass = 2,
                              !.again = BuildStashIdsList(recon.stash_ids, fetched, Sources)]
    /\ UNCHANGED <<hostSettings, endpoints, clientVars, mergeVars, existingStashIds,
                   syncVars, buildVars, favVars>>

NextRecon == Reconcile \/ ReconcileAgain

SpecRecon == InitRecon /\ [][NextRecon]_vars

\* ------------------------------------------------- the synchronisation run
\* a searchPerformer candidate { id name }
Cand(id, name) == JObj(("id" :> JStr(id)) @@ ("name" :> name))
SearchList(q) == Response(FALSE, JObj("searchPerformer" :> JList(q)))

\* answers of a source to the search for "Jane Doe"
SearchAnswers(source) ==
    {SearchList(<<>>),
     SearchList(<<Cand(ExternalId(source), JStr("JANE DOE"))>>),
     SearchList(<<Cand(ExternalId(source), JStr("Jane Doe")),
                  Cand(AltExternalId(source), JStr("jane doe"))>>),
     SearchList(<<Cand(AltExternalId(source), JStr("Jane Roe")),
                  Cand(ExternalId(source), JStr("Jane Doe"))>>),
     SearchList(<<Cand(ExternalId(source), JNull)>>),
     Response(TRUE, JObj("searchPerformer" :>
                           JList(<<Cand(ExternalId(source), JStr("Jane Doe"))>>)))}

FullRecord(id, aliases, height, images) ==
    JObj(("id" :> JStr(id)) @@ ("name" :> JStr("Jane Doe")) @@ ("aliases" :> aliases)
         @@ ("height" :> height) @@ ("images" :> JList(images)))

FoundRecord(record) == Response(FALSE, JObj("findPerformer" :> record))

\* answers of a source to a find by id: no such performer, the performer,
\* a performer under another id, a performer whose aliases are null
FindAnswers(source) ==
    {FoundRecord(JNull),
     FoundRecord(FullRecord(ExternalId(source), JList(<<>>), JStr("170"),
                            <<Image(ImageUrlOf(source))>>)),
     FoundRecord(FullRecord(AltExternalId(source), JList(<<>>), JNull, <<>>)),
     FoundRecord(FullRecord(ExternalId(source), JNull, JStr("165"), <<>>))}

RemoteOf(source) ==
    {[down |-> TRUE, search |-> SearchList(<<>>), find |-> FoundRecord(JNull)]}
    \cup {[down |-> FALSE, search |-> sa, find |-> fa] :
            sa \in SearchAnswers(source), fa \in FindAnswers(source)}

SyncRemotes ==
    {[s \in {"stashdb", "tpdb"} |-> IF s = "stashdb" THEN a ELSE b] :
       a \in RemoteOf("stashdb"), b \in RemoteOf("tpdb")}

Performer(id, stash_ids) == [id |-> id, name |-> "Jane Doe", stash_ids |-> stash_ids]

SyncStashIds ==
    {<<>>,
     <<StashId("s1", EndpointUrl("stashdb"))>>,
     <<StashId("t1", EndpointUrl("tpdb"))>>,
     <<StashId("s1", EndpointUrl("stashdb")), StashId("t1", EndpointUrl("tpdb"))>>,
     <<StashId("x1", "https://example.org/graphql")>>}

SyncSettings ==
    {EmptyDict, [enableNameSearch |-> FALSE], [performerImageUpdate |-> FALSE]}

\* one performer, every remote side
InitSync ==
    /\ hostSettings \in SyncSettings
    /\ endpoints \in EndpointChoices
    /\ cache = EmptyCache
    /\ now = 0
    /\ hashSeed = 1
    /\ lastCall = NoCall
    /\ lastPut = EmptyCache
    /\ calls = 0
    /\ ticks = 0
    /\ fetched = <<>>
    /\ merged = NotMerged
    /\ existingStashIds = <<>>
    /\ recon = NotReconciled
    /\ catalog \in {<<Performer(1, ids)>> : ids \in SyncStashIds}
    /\ remote \in SyncRemotes
    /\ run = IdleRun
    /\ entity = NoEntity
    /\ payload = NotBuilt
    /\ fav = IdleFav

\* update_all_performers up to the loop: _get_all_performers returns the
\* catalog's performers, or [] when the catalog raises or has none
StartRun ==
    /\ run.pc = "idle"
    /\ \E performers \in {catalog, <<>>} :
         run' = IF Len(performers) = 0
                THEN [run EXCEPT !.pc = "done", !.result = RunResult(0, 0, 0, <<>>)]
                ELSE [run EXCEPT !.pc = "loop", !.performers = performers,
                                 !.total = Len(performers), !.i = 1]
    /\ UNCHANGED <<hostSettings, endpoints, clientVars, mergeVars, reconVars, catalog,
                   remote, entity, buildVars, favVars>>

\* one iteration of the loop over the performers
ProcessNext ==
    /\ run.pc = "loop"
    /\ run.i <= run.total
    /\ \E outcome \in CatalogOutcomes :
         \E performer \in {run.performers[run.i]} :
         \E r \in {UpdatePerformerDataRun(Begin, performer,
                      ConfigGet(PluginConfig, "enableNameSearch", TRUE), remote, outcome)} :
            /\ run' = [IterationCounts(run, performer, r) EXCEPT
                         !.rejected = IF r.update.called /\ outcome \in {"none", "raises"}
                                      THEN @ \cup {performer.id} ELSE @,
                         !.updates = IF r.update.called
                                     THEN Append(@, performer.id) ELSE @]
            /\ entity' = [performer |-> performer, raised |-> r.raised,
                          result |-> r.result, update |-> r.update, trace |-> r.os.trace,
                          data |-> r.os.data, raisedIn |-> r.os.raisedIn,
                          log |-> r.os.st.log]
            /\ cache' = r.os.st.cache
            /\ now' = r.os.st.now
            /\ lastPut' = r.os.st.puts
    /\ UNCHANGED <<hostSettings, endpoints, hashSeed, lastCall, calls, ticks, mergeVars,
                   reconVars, catalog, remote, buildVars, favVars>>

\* the summary and the return of update_all_performers
FinishRun ==
    /\ run.pc = "loop"
    /\ run.i > run.total
    /\ run' = [run EXCEPT !.pc = "done",
                          !.result = RunResult(run.processed, run.total, run.updated,
                                               run.errors)]
    /\ UNCHANGED <<hostSettings, endpoints, clientVars, mergeVars, reconVars, catalog,
                   remote, entity, buildVars, favVars>>

NextSync == StartRun \/ ProcessNext \/ FinishRun

SpecSync == InitSync /\ [][NextSync]_vars

\* a catalog of up to MaxPerformers performers against a few remote sides
RunStashIds ==
    {<<>>,
     <<StashId("s1", EndpointUrl("stashdb"))>>,
     <<StashId("s2", EndpointUrl("stashdb")), StashId("t1", EndpointUrl("tpdb"))>>}

Catalogs ==
    {[i \in 1..Len(q) |-> Performer(i, q[i])] :
       q \in UNION {[1..n -> RunStashIds] : n \in 0..MaxPerformers}}

RunRemotes ==
    {[s \in {"stashdb", "tpdb"} |->
        IF s = "stashdb"
        THEN [down |-> FALSE,
              search |-> SearchList(<<Cand(ExternalId(s), JStr("Jane Doe"))>>),
              find |-> fa]
        ELSE b] :
       fa \in FindAnswers("stashdb"),
       b \in {[down |-> TRUE, search |-> SearchList(<<>>), find |-> FoundRecord(JNull)],
              [down |-> FALSE, search |-> SearchList(<<>>),
               find |-> FoundRecord(FullRecord(ExternalId("tpdb"), JList(<<>>), JNull,
                                               <<>>))]}}

InitRun ==
    /\ hostSettings = EmptyDict
    /\ endpoints \in EndpointChoices
    /\ cache = EmptyCache
    /\ now = 0
    /\ hashSeed = 1
    /\ lastCall = NoCall
    /\ lastPut = EmptyCache
    /\ calls = 0
    /\ ticks = 0
    /\ fetched = <<>>
    /\ merged = NotMerged
    /\ existingStashIds = <<>>
    /\ recon = NotReconciled
    /\ catalog \in Catalogs
    /\ remote \in RunRemotes
    /\ run = IdleRun
    /\ entity = NoEntity
    /\ payload = NotBuilt
    /\ fav = IdleFav

SpecRun == InitRun /\ [][NextSync]_vars

\* ------------------------------------- runs under every source configuration
\* the precedence setting, split at the commas and stripped
ConfigPrecedences ==
    {<<"stashdb", "tpdb", "fansdb">>,
     <<"fansdb", "tpdb", "stashdb">>,
     <<"tpdb", "stashdb">>,
     <<"stashdb", "tpdb", "stashdb">>,
     <<"fansdb", "fansdb", "tpdb", "stashdb">>,
     <<"other", "tpdb", "tpdb">>}

\* the three enable flags and the precedence, as the host's settings hold them
ConfigSettings ==
    {[enableStashDB |-> a, enableTPDB |-> b, enableFansDB |-> c, sourcePrecedence |-> q] :
       a \in BOOLEAN, b \in BOOLEAN, c \in BOOLEAN, q \in ConfigPrecedences}

\* every source answers: the search finds one candidate of the name, the
\* find by id returns its record
ConfigRemote ==
    [s \in SourceNames |->
       [down |-> FALSE,
        search |-> SearchList(<<Cand(ExternalId(s), JStr("Jane Doe"))>>),
        find |-> FoundRecord(FullRecord(ExternalId(s), JList(<<>>), JStr("170"), <<>>))]]

InitConfig ==
    /\ hostSettings \in ConfigSettings
    /\ endpoints \in {AllEndpoints} \cup EndpointChoices
    /\ cache = EmptyCache
    /\ now = 0
    /\ hashSeed = 1
    /\ lastCall = NoCall
    /\ lastPut = EmptyCache
    /\ calls = 0
    /\ ticks = 0
    /\ fetched = <<>>
    /\ merged = NotMerged
    /\ existingStashIds = <<>>
    /\ recon = NotReconciled
    /\ catalog \in {<<Performer(1, ids)>> :
                      ids \in {<<>>, <<StashId("f1", EndpointUrl("fansdb"))>>}}
    /\ remote = ConfigRemote
    /\ run = IdleRun
    /\ entity = NoEntity
    /\ payload = NotBuilt
    /\ fav = IdleFav

SpecConfig == InitConfig /\ [][NextSync]_vars

\* --------------------------- one performer known to stashdb, not to tpdb
\* stashdb answers the find by id with {id, name, height}; the tpdb search
\* returns nobody of the name
ScenarioRemotes ==
    {[s \in {"stashdb", "tpdb"} |->
        IF s = "stashdb"
        THEN [down |-> FALSE, search |-> SearchList(<<>>),
              find |-> FoundRecord(JObj(("id" :> JStr("s1")) @@ ("name" :> JStr("Jane Doe"))
                                        @@ ("height" :> JStr("170"))))]
        ELSE [down |-> FALSE, search |-> sa, find |-> FoundRecord(JNull)]] :
       sa \in {SearchList(<<>>),
               SearchList(<<Cand("t2", JStr("Jane Roe"))>>),
               SearchList(<<Cand("t1", JStr("Jane")), Cand("t2", JStr("Doe, Jane"))>>)}}

InitScenario ==
    /\ hostSettings \in {EmptyDict, [performerImageUpdate |-> FALSE]}
    /\ endpoints \in EndpointChoices
    /\ cache = EmptyCache
    /\ now = 0
    /\ hashSeed = 1
    /\ lastCall = NoCall
    /\ lastPut = EmptyCache
    /\ calls = 0
    /\ ticks = 0
    /\ fetched = <<>>
    /\ merged = NotMerged
    /\ existingStashIds = <<>>
    /\ recon = NotReconciled
    \* the local performer: its stash_ids name stashdb only
    /\ catalog \in {<<Performer(1, <<StashId("s1", EndpointUrl("stashdb"))>>)
                        @@ [height_cm |-> h]>> :
                       h \in {JNull, JStr("165"), JStr("170")}}
    /\ remote \in ScenarioRemotes
    /\ run = IdleRun
    /\ entity = NoEntity
    /\ payload = NotBuilt
    /\ fav = IdleFav

SpecScenario == InitScenario /\ [][NextSync]_vars

\* ------------------------------------- the update payload, as a function
\* gender values a source may hold, career years, and an unset attribute
GenderValues ==
    {JNull, JStr("MALE"), JStr("FEMALE"), JStr("female"), JStr("Male"),
     JStr("TRANSGENDER_FEMALE"), JStr("")}
StartYears == {JNull, JStr("2005")}
EndYears == {JNull, JStr("2010")}

\* merged records: the attributes a find-by-id record carries, and a record
\* that lacks the career keys
BuildRecords ==
    {JObj(("id" :> JStr("s1")) @@ ("name" :> JStr("Jane Doe")) @@ ("gender" :> g)
          @@ ("aliases" :> JList(<<>>))
          @@ ("career_start_year" :> a) @@ ("career_end_year" :> b)) :
       g \in GenderValues, a \in StartYears, b \in EndYears}
    \cup {JObj(("id" :> JStr("s1")) @@ ("gender" :> g)) : g \in GenderValues}

InitBuild ==
    /\ hostSettings = EmptyDict
    /\ endpoints = AllEndpoints
    /\ cache = EmptyCache
    /\ now = 0
    /\ hashSeed = 1
    /\ lastCall = NoCall
    /\ lastPut = EmptyCache
    /\ calls = 0
    /\ ticks = 0
    /\ fetched = <<>>
    /\ merged \in BuildRecords
    /\ existingStashIds \in ExistingChoices
    /\ recon = NotReconciled
    /\ catalog = <<>>
    /\ remote = NoRemote
    /\ run = IdleRun
    /\ entity = NoEntity
    /\ payload = NotBuilt
    /\ fav = IdleFav

\* build_performer_update_data(combined_data, performer, image_url, stash_ids)
Build ==
    /\ ~payload.built
    /\ \E image_url \in {JNull, JStr(ImageUrlOf("stashdb"))} :
         payload' = [built |-> TRUE, image_url |-> image_url]
                    @@ BuildPerformerUpdateData(merged, Performer(1, existingStashIds),
                                                image_url, existingStashIds)
    /\ UNCHANGED <<hostSettings, endpoints, clientVars, mergeVars, reconVars, syncVars,
                   favVars>>

NextBuild == Build

SpecBuild == InitBuild /\ [][NextBuild]_vars

\* ------------------------------------------------ favorites, one at a time
\* a favorite of the remote account: { id name }
RemoteFavorites ==
    {Cand("s1", JStr("Jane Doe")), Cand("s9", JStr("Mary Major"))}

LocalEntity(id, name, favorite, stash_ids) ==
    [id |-> id, name |-> name, favorite |-> favorite, stash_ids |-> stash_ids]

\* local entities of one kind: one that holds the identity (stashdb, s1)
\* under another name, one of the name in another case, one that holds the
\* id s1 for another endpoint
LocalLists ==
    {<<>>} \cup
    {<<LocalEntity(1, "J. Doe", f, <<StashId("s1", EndpointUrl("stashdb"))>>)>> :
       f \in BOOLEAN} \cup
    {<<LocalEntity(1, "JANE DOE", f, <<>>)>> : f \in BOOLEAN} \cup
    {<<LocalEntity(1, "Jane Roe", FALSE, <<StashId("s1", EndpointUrl("tpdb"))>>),
       LocalEntity(2, "jane doe", f, <<StashId("s1", EndpointUrl("stashdb"))>>)>> :
       f \in BOOLEAN}

FavSettings ==
    {EmptyDict, [autoCreatePerformers |-> TRUE], [autoCreateSites |-> TRUE]}

\* whether the catalog listing of each lookup raises, and what the catalog
\* does with a create and with an update
CatalogBehaviours ==
    [id_listing_raises : BOOLEAN, name_listing_raises : BOOLEAN,
     create : CreateOutcomes, mark : MarkOutcomes]

InitFav ==
    /\ hostSettings \in FavSettings
    /\ endpoints \in EndpointChoices
    /\ cache = EmptyCache
    /\ now = 0
    /\ hashSeed = 1
    /\ lastCall = NoCall
    /\ lastPut = EmptyCache
    /\ calls = 0
    /\ ticks = 0
    /\ fetched = <<>>
    /\ merged = NotMerged
    /\ existingStashIds = <<>>
    /\ recon = NotReconciled
    /\ catalog \in {[kind \in FavoriteTypes |-> list] : list \in LocalLists}
    /\ remote = NoRemote
    /\ run = IdleRun
    /\ entity = NoEntity
    /\ payload = NotBuilt
    /\ fav = IdleFav

\* one favorite of a source's list is synchronised to the local catalog
SyncFavorite ==
    /\ fav.n < MaxCalls
    /\ \E kind \in FavoriteTypes, favorite \in RemoteFavorites, env \in CatalogBehaviours :
         \E r \in {SyncFavoriteRun(kind, favorite, "stashdb", catalog[kind],
                                     PluginConfig, Sources, env)} :
            /\ catalog' = [catalog EXCEPT ![kind] = r.entities]
            /\ fav' = [done |-> TRUE, n |-> fav.n + 1, kind |-> kind,
                        favorite |-> favorite, source |-> "stashdb",
                        before |-> catalog[kind], result |-> r.result,
                        lookups |-> r.lookups, create |-> r.create, mark |-> r.mark]
    /\ UNCHANGED <<hostSettings, endpoints, clientVars, mergeVars, reconVars, remote,
                   run, entity, buildVars>>

NextFav == SyncFavorite

SpecFav == InitFav /\ [][NextFav]_vars

\* ------------------------------------ favorites of all sources, run twice
\* the loop over the favorites of one source; acc holds the catalog's
\* entities, the counters, and the create and update calls made so far
RECURSIVE FavoritesLoop(_, _, _, _, _, _, _)
FavoritesLoop(kind, favorites, source, acc, pc, srcs, env) ==
    IF favorites = <<>> THEN acc
    ELSE With(SyncFavoriteRun(kind, Head(favorites), source, acc.entities, pc, srcs, env),
              LAMBDA r :
         FavoritesLoop(kind, Tail(favorites), source,
           [entities |-> r.entities,
            synced |-> IF r.result.synced THEN acc.synced + 1 ELSE acc.synced,
            created |-> IF r.result.created THEN acc.created + 1 ELSE acc.created,
            errors |-> IF r.result.error
                       THEN Append(acc.errors, FavoriteName(Head(favorites)))
                       ELSE acc.errors,
            writes |-> acc.writes \o
                         (IF r.create.called THEN <<[op |-> "create", outcome |-> r.create.outcome]>>
                          ELSE <<>>) \o
                         (IF r.mark.called THEN <<[op |-> "update", outcome |-> r.mark.outcome]>>
                          ELSE <<>>)],
           pc, srcs, env))

\* _sync_source_favorites / _sync_source_favorite_sites: [result, st,
\* entities, writes]; every exception ends in the dict {"error": ...}
SyncSourceFavoritesRun(kind, source, st, entities, pc, srcs, answer, env) ==
    LET a == [query |-> FavoritesQuery(kind), variables |-> kind, source |-> source,
              use_cache |-> FALSE, retries |-> DefaultRetries, k |-> answer.k,
              resp |-> answer.resp, pc |-> pc, srcs |-> srcs, seed |-> 1]
        Failed(s) == [result |-> [error |-> "Failed to sync favorites"], st |-> s,
                      entities |-> entities, writes |-> <<>>]
    IN IF source \notin DOMAIN srcs THEN Failed(st)
       ELSE With(GetFavoritesRun(st, kind, a), LAMBDA g :
              IF g.raised THEN Failed(g.st)
              ELSE IF ~Truthy(g.result)
              THEN [result |-> [synced |-> 0, errors |-> <<>>,
                                message |-> "No favorites found"],
                    st |-> g.st, entities |-> entities, writes |-> <<>>]
              ELSE With(FavoritesLoop(kind, g.result.l, source,
                          [entities |-> entities, synced |-> 0, created |-> 0,
                           errors |-> <<>>, writes |-> <<>>], pc, srcs, env),
                        LAMBDA acc :
                     [result |-> [synced |-> acc.synced, created |-> acc.created,
                                  total |-> Len(g.result.l), errors |-> acc.errors,
                                  source |-> source],
                      st |-> g.st, entities |-> acc.entities, writes |-> acc.writes]))

\* `for source in self.config.get_enabled_sources()` of sync_all_favorites /
\* sync_all_favorite_sites; the except clause of the loop body is never
\* entered, the callee raises nothing
RECURSIVE AllFavoritesLoop(_, _, _, _, _, _, _)
AllFavoritesLoop(kind, sources, acc, pc, srcs, answers, env) ==
    IF sources = <<>> THEN acc
    ELSE With(SyncSourceFavoritesRun(kind, Head(sources), acc.st, acc.entities, pc, srcs,
                                     answers[Head(sources)], env), LAMBDA r :
         AllFavoritesLoop(kind, Tail(sources),
           [st |-> r.st, entities |-> r.entities,
            total_synced |-> acc.total_synced + ConfigGet(r.result, "synced", 0),
            total_created |-> acc.total_created + ConfigGet(r.result, "created", 0),
            total_errors |-> acc.total_errors + Len(ConfigGet(r.result, "errors", <<>>)),
            results |-> Append(acc.results, <<Head(sources), r.result>>),
            writes |-> acc.writes \o r.writes],
           pc, srcs, answers, env))

\* what a source answers to the favorites query: (failing attempts, answer)
FavoritesOf(kind, list) ==
    [k |-> 0, resp |-> Response(FALSE,
                 JObj("me" :> JObj("favorites" :> JObj(kind :> JList(list)))))]
FavoritesAnswers(kind) ==
    {[s \in {"stashdb", "tpdb"} |-> IF s = "stashdb" THEN a ELSE b] :
       a \in {FavoritesOf(kind, <<Cand("s1", JStr("Jane Doe"))>>),
              FavoritesOf(kind, <<Cand("s1", JStr("Jane Doe")),
                                  Cand("s9", JStr("Mary Major"))>>),
              [k |-> 0, resp |-> Response(FALSE, JObj("me" :> JNull))],
              [k |-> DefaultRetries, resp |-> Response(FALSE, JNull)]},
       b \in {FavoritesOf(kind, <<Cand("t1", JStr("Jane Doe"))>>),
              FavoritesOf(kind, <<>>),
              [k |-> 0, resp |-> Response(FALSE, JObj("me" :> JNull))]}}

\* the catalog during one run
RunBehaviours ==
    {[id_listing_raises |-> l[1], name_listing_raises |-> l[2], create |-> c, mark |-> m] :
       l \in {<<FALSE, FALSE>>, <<TRUE, FALSE>>, <<TRUE, TRUE>>},
       c \in {"ok", "raises"}, m \in {"ok", "none"}}

InitFavAll ==
    /\ hostSettings \in FavSettings
    /\ endpoints \in EndpointChoices
    /\ cache = EmptyCache
    /\ now = 0
    /\ hashSeed = 1
    /\ lastCall = NoCall
    /\ lastPut = EmptyCache
    /\ calls = 0
    /\ ticks = 0
    /\ fetched = <<>>
    /\ merged = NotMerged
    /\ existingStashIds = <<>>
    /\ recon = NotReconciled
    /\ catalog \in {[kind \in FavoriteTypes |-> list] : list \in LocalLists}
    /\ remote \in UNION {FavoritesAnswers(kind) : kind \in {"performers"}}
    /\ run = IdleRun
    /\ entity = NoEntity
    /\ payload = NotBuilt
    /\ fav = IdleFav

\* sync_all_favorites as one task of the plugin; the next task runs it again
\* on the catalog and the cache file this one leaves
SyncAllFavorites ==
    /\ fav.done => fav.first = <<>>
    /\ \E env \in RunBehaviours :
         \E r \in {AllFavoritesLoop("performers", GetEnabledSources(PluginConfig, endpoints),
                      [st |-> Begin, entities |-> catalog["performers"], total_synced |-> 0,
                       total_created |-> 0, total_errors |-> 0, results |-> <<>>,
                       writes |-> <<>>],
                      PluginConfig, Sources, remote, env)} :
            /\ catalog' = [catalog EXCEPT !["performers"] = r.entities]
            /\ fav' = [done |-> TRUE, n |-> fav.n + 1, env |-> env,
                        before |-> catalog["performers"],
                        result |-> [total_synced |-> r.total_synced,
                                    total_created |-> r.total_created,
                                    total_errors |-> r.total_errors,
                                    source_results |-> r.results],
                        writes |-> r.writes,
                        first |-> IF fav.done
                                  THEN <<[env |-> fav.env, writes |-> fav.writes]>>
                                  ELSE <<>>]
            /\ cache' = r.st.cache
            /\ now' = r.st.now
            /\ lastPut' = r.st.puts
    /\ UNCHANGED <<hostSettings, endpoints, hashSeed, lastCall, calls, ticks, mergeVars,
                   reconVars, remote, run, entity, buildVars>>

NextFavAll == SyncAllFavorites

SpecFavAll == InitFavAll /\ [][NextFavAll]_vars

\* ------------------------------------------------------------ properties
CallStep == calls' = calls + 1
TTL == PluginConfig.cacheExpirationHours * SecondsPerHour
Attempts(log) == SelectSeq(log, LAMBDA ev : ev.e = "attempt")
Sleeps(log) == SelectSeq(log, LAMBDA ev : ev.e \in {"rate_sleep", "backoff_sleep"})
RateSleeps(log) == SelectSeq(log, LAMBDA ev : ev.e = "rate_sleep")
Puts(log) == SelectSeq(log, LAMBDA ev : ev.e = "cache_put")
\* the key the call derives for its cache read
CallKey(c) ==
    IF c.op = "find_performer"
    THEN GetCacheKey(c.source, "performer", c.variables)
    ELSE GetCacheKey(c.source, "request", RequestIdentifier(c.seed, c.query, c.variables))
CallTable(c) == IF c.op = "find_performer" THEN "performer_cache" ELSE "search_cache"

\* C1: a cache read at time t of a key whose record was written at time T
\* returns exactly the written payload when t < T + H*3600 and returns
\* absent when t >= T + H*3600, in every namespace.
C1_TtlExpiry ==
    [][CallStep /\ lastCall'.read.done =>
         LET rd == lastCall'.read
         IN \A p \in lastPut[rd.tb] :
              p.id = rd.id =>
                IF rd.at < p.at + (PluginConfig.cacheExpirationHours * 3600)
                THEN rd.data = p.payload
                ELSE rd.data = JNull]_vars

\* C1 witness: a read one second before the expiry instant returned the
\* written payload
C1_Witness ==
    /\ lastCall.read.done
    /\ \E p \in lastPut[lastCall.read.tb] :
         /\ p.id = lastCall.read.id
         /\ lastCall.read.at = p.at + TTL - 1
         /\ lastCall.read.data = p.payload
         /\ Truthy(p.payload)

\* C2: make_request with use_cache, and find_performer, started while the
\* cache holds an unexpired record under the derived key, return that
\* record's payload with no network attempt and no sleep.
C2_CacheHitNoNetwork ==
    [][CallStep /\ (lastCall'.op = "find_performer" \/ lastCall'.use_cache) =>
         LET c == lastCall'
         IN \A r \in cache[CallTable(c)] :
              r.id = CallKey(c) /\ now < r.timestamp + TTL =>
                /\ \E p \in lastPut[CallTable(c)] :
                     p.id = r.id /\ p.at = r.timestamp /\ c.result = p.payload
                /\ Attempts(c.log) = <<>>
                /\ Sleeps(c.log) = <<>>
                /\ now' = now]_vars

\* C2 witness: a find_performer call answered from the resolved-entity
\* table
C2_Witness ==
    /\ lastCall.op = "find_performer"
    /\ lastCall.read.done
    /\ Truthy(lastCall.read.data)
    /\ lastCall.result = lastCall.read.data
    /\ Len(lastCall.log) = 1

\* the attempts and backoff sleeps of a trace, as <<kind, seconds>>
RetryTrace(log) ==
    LET sel == SelectSeq(log, LAMBDA ev : ev.e \in {"attempt", "backoff_sleep"})
    IN [i \in 1..Len(sel) |->
          IF sel[i].e = "attempt" THEN <<"attempt", 0>> ELSE <<"backoff_sleep", sel[i].d>>]

AllTransportErrors(log) ==
    /\ Attempts(log) # <<>>
    /\ \A i \in 1..Len(log) : log[i].e = "attempt" => log[i].out = "transport_error"

\* C3: with 5 attempts allowed and a transport that fails every attempt,
\* the call makes exactly 5 attempts, backs off 1 s, 2 s, 4 s, 8 s before
\* attempts 2..5, does not back off after the 5th, and fails.  Between the
\* end of attempt i and the start of attempt i+1 lie the backoff 2^(i-1)
\* and the rate-limit sleep of the next attempt, nothing else.
C3_RetryTiming ==
    lastCall.retries = 5 /\ AllTransportErrors(lastCall.log) =>
      /\ LET att == Attempts(lastCall.log)
             rate == IF PluginConfig.rateLimit > 0 THEN PluginConfig.rateLimit ELSE 0
         IN \A i \in 1..(Len(att) - 1) :
              att[i + 1].at - (att[i].at + att[i].d) = 2 ^ (i - 1) + rate
      /\ lastCall.log[Len(lastCall.log)].e = "attempt"
      /\ RetryTrace(lastCall.log) =
           <<(<<"attempt", 0>>), (<<"backoff_sleep", 1>>),
             (<<"attempt", 0>>), (<<"backoff_sleep", 2>>),
             (<<"attempt", 0>>), (<<"backoff_sleep", 4>>),
             (<<"attempt", 0>>), (<<"backoff_sleep", 8>>),
             (<<"attempt", 0>>)>>
      /\ lastCall.result = JNull

C3_Witness ==
    /\ lastCall.op = "make_request"
    /\ lastCall.retries = 5
    /\ AllTransportErrors(lastCall.log)
    /\ Len(Attempts(lastCall.log)) = 5

\* C4: an attempt answered with a GraphQL error list ends the call at once:
\* it is the last event of the call, the result is failure, no cache table
\* gains or changes a row.
C4_ErrorsTerminal ==
    [][CallStep =>
         LET log == lastCall'.log
         IN \A i \in 1..Len(log) :
              log[i].e = "attempt" /\ log[i].out = "errors" =>
                /\ i = Len(log)
                /\ lastCall'.result = JNull
                /\ \A tb \in Tables : cache'[tb] \subseteq cache[tb]]_vars

\* C4 witness: an error answer after one failed attempt, for a call that
\* would have cached the data
C4_Witness ==
    /\ lastCall.op = "make_request"
    /\ lastCall.use_cache
    /\ Len(Attempts(lastCall.log)) = 2
    /\ lastCall.log[Len(lastCall.log)].out = "errors"

\* C5: when the rate-limit delay is positive, every network attempt is
\* immediately preceded by exactly one sleep of that delay.
C5_RateLimitBeforeEveryAttempt ==
    LET log == lastCall.log
    IN PluginConfig.rateLimit > 0 =>
         \A i \in 1..Len(log) :
           log[i].e = "attempt" =>
             /\ i > 1
             /\ log[i - 1].e = "rate_sleep"
             /\ log[i - 1].d = PluginConfig.rateLimit
             /\ log[i].at = log[i - 1].at + PluginConfig.rateLimit
             /\ (i > 2 => log[i - 2].e # "rate_sleep")

C5_Witness ==
    /\ PluginConfig.rateLimit > 0
    /\ Len(Attempts(lastCall.log)) = 5
    /\ Len(RateSleeps(lastCall.log)) = 5

\* C6 as stated: with rateLimitSeconds = 0 in the host settings no call
\* performs a throttling sleep.
C6_Original ==
    ("rateLimitSeconds" \in DOMAIN hostSettings /\ hostSettings.rateLimitSeconds = 0)
      => RateSleeps(lastCall.log) = <<>>

\* C6 amended: with rateLimit = 0 in the host settings no call performs a
\* throttling sleep before any attempt.
C6_RateLimitZero ==
    ("rateLimit" \in DOMAIN hostSettings /\ hostSettings.rateLimit = 0)
      => RateSleeps(lastCall.log) = <<>>

\* C6 witness: the second of two successful cache-miss requests under
\* rateLimit = 0
C6_Witness ==
    /\ "rateLimit" \in DOMAIN hostSettings /\ hostSettings.rateLimit = 0
    /\ calls = 2
    /\ lastCall.log # <<>>
    /\ lastCall.log[1].e = "cache_get" /\ lastCall.log[1].out = "miss"
    /\ Len(Attempts(lastCall.log)) = 1
    /\ Truthy(lastCall.result)

SameRequest(c, d) ==
    /\ c.op = "make_request" /\ d.op = "make_request"
    /\ c.source = d.source /\ c.query = d.query /\ c.variables = d.variables

\* C7 as stated: after make_request with use_cache has returned data, the
\* data is stored under the request's key, and the next make_request of
\* the same source, query and variables within the TTL returns the same
\* data with no network attempt.
C7_Original ==
    /\ [](lastCall.op = "make_request" /\ lastCall.use_cache /\ Truthy(lastCall.result)
            => \E r \in cache["search_cache"] :
                 r.id = CallKey(lastCall) /\ r.data = JsonDumps(lastCall.result))
    /\ [][CallStep /\ SameRequest(lastCall, lastCall')
            /\ lastCall.use_cache /\ lastCall'.use_cache /\ Truthy(lastCall.result)
            /\ (\E p \in lastPut["search_cache"] :
                  p.id = CallKey(lastCall) /\ now < p.at + TTL)
            => /\ lastCall'.result = lastCall.result
               /\ Attempts(lastCall'.log) = <<>>]_vars

\* C8: make_request for a source that is not an enabled configured source
\* fails without any sleep, network attempt, cache read or cache write.
C8_UnknownSourceNoRequest ==
    [][CallStep /\ lastCall'.op = "make_request" /\ lastCall'.source \notin DOMAIN Sources =>
         /\ lastCall'.result = JNull
         /\ lastCall'.log = <<>>
         /\ ~lastCall'.read.done
         /\ cache' = cache
         /\ now' = now]_vars

C8_Witness ==
    /\ lastCall.op = "make_request"
    /\ lastCall.use_cache
    /\ lastCall.source \notin DOMAIN Sources
    /\ lastCall.result = JNull

\* ------------------------------------------------------ merge properties
Rank(s) == Sources[s].precedence
FetchedSources == DictKeys(fetched)
RecordOf(s) == DictAt(fetched, s).o
Supplies(s, x) == x \in DOMAIN RecordOf(s) /\ Truthy(RecordOf(s)[x])
MergeFields == {"id", "country", "height"}

\* C9: when sources A and B both supply field x, A of higher precedence
\* than B and no fetched source of higher precedence than A carrying x, the
\* merged x is A's value, whatever order the map was filled in.
C9_MergePrecedence ==
    merged # NotMerged =>
      \A A \in FetchedSources, B \in FetchedSources, x \in MergeFields :
        (/\ Rank(A) < Rank(B)
         /\ Supplies(A, x) /\ Supplies(B, x)
         /\ \A C \in FetchedSources : Rank(C) < Rank(A) => x \notin DOMAIN RecordOf(C))
        => /\ x \in DOMAIN merged.o
           /\ merged.o[x] = RecordOf(A)[x]

\* C9 witness: the lower-precedence source was fetched first and both
\* supply different heights
C9_Witness ==
    /\ merged # NotMerged
    /\ Len(fetched) = 2
    /\ Rank(fetched[1][1]) > Rank(fetched[2][1])
    /\ Supplies(fetched[1][1], "height") /\ Supplies(fetched[2][1], "height")
    /\ fetched[1][2].o["height"] # fetched[2][2].o["height"]
    /\ merged.o["height"] = fetched[2][2].o["height"]

\* C10 as stated: when the highest-precedence fetched source has no value
\* for field x and lower-precedence fetched sources have one, the merged x
\* is the value of the highest-precedence source among those that have one.
C10_Original ==
    merged # NotMerged =>
      \A A \in FetchedSources, B \in FetchedSources, x \in MergeFields :
        (/\ \A C \in FetchedSources : Rank(A) <= Rank(C)
         /\ ~Supplies(A, x)
         /\ Supplies(B, x)
         /\ \A C \in FetchedSources : Supplies(C, x) => Rank(B) <= Rank(C))
        => /\ x \in DOMAIN merged.o
           /\ merged.o[x] = RecordOf(B)[x]

\* ----------------------------------- image and identity list properties
\* the non-empty image urls of a fetched source, in the order of its images
NonEmptyUrls(s) ==
    LET images == IF "images" \in DOMAIN RecordOf(s) THEN RecordOf(s)["images"] ELSE JNull
        urls == IF images.t = "list"
                THEN [i \in 1..Len(images.l) |-> DictGet(images.l[i], "url")] ELSE <<>>
    IN SelectSeq(urls, LAMBDA u : Truthy(u))

ImageSuppliers == {s \in FetchedSources : NonEmptyUrls(s) # <<>>}

HasId(s) == Truthy(DictGet(DictAt(fetched, s), "id"))
PairOf(s) == StashId(RecordOf(s)["id"].s, Sources[s].url)
Count(list, x) == Cardinality({i \in 1..Len(list) : list[i] = x})

\* C12: the reconciled list starts with the existing list, unchanged, and
\* every entry after it is the (endpoint, id) pair of a fetched source whose
\* record has a non-empty id.
C12_ExistingKept ==
    recon.pass >= 1 =>
      LET out == recon.stash_ids
          n == Len(existingStashIds)
      IN /\ Len(out) >= n
         /\ SubSeq(out, 1, n) = existingStashIds
         /\ \A i \in (n + 1)..Len(out) :
              \E s \in FetchedSources : HasId(s) /\ out[i] = PairOf(s)

\* C12 witness: a non-empty existing list, one fetched record without an id
\* and one whose pair was appended
C12_Witness ==
    /\ recon.pass >= 1
    /\ existingStashIds # <<>>
    /\ Len(recon.stash_ids) > Len(existingStashIds)
    /\ \E s \in FetchedSources : ~HasId(s)

\* C13: a pair the existing list holds is not added again (it occurs in the
\* result as often as before), no pair is appended twice, and reconciling
\* the result once more with the same records returns the same list.
C13_NoDuplicatePair ==
    /\ recon.pass >= 1 =>
         \A s \in FetchedSources :
           HasId(s) =>
             Count(recon.stash_ids, PairOf(s)) =
               IF Count(existingStashIds, PairOf(s)) > 0
               THEN Count(existingStashIds, PairOf(s)) ELSE 1
    /\ recon.pass = 2 => recon.again = recon.stash_ids

\* C13 witness: the existing list holds the pair a fetch yields, another
\* pair was appended, and the second reconciliation has run
C13_Witness ==
    /\ recon.pass = 2
    /\ \E s \in FetchedSources :
         HasId(s) /\ Count(existingStashIds, PairOf(s)) = 1
                  /\ Count(recon.stash_ids, PairOf(s)) = 1
    /\ Len(recon.stash_ids) > Len(existingStashIds)

\* ------------------------------------------------- orchestrator properties
Processed == entity # NoEntity
NameSearch == ConfigGet(PluginConfig, "enableNameSearch", TRUE)
CallsTo(s) == SelectSeq(entity.trace, LAMBDA c : c.source = s)
Contributed(s) == s \in DictKeys(entity.data)
\* the ids the performer holds for the endpoint of source s
HeldIds(s) ==
    {entity.performer.stash_ids[i].stash_id :
       i \in {j \in 1..Len(entity.performer.stash_ids) :
                entity.performer.stash_ids[j].endpoint = Sources[s].url}}
EntriesFor(list, s) == {i \in 1..Len(list) : list[i].endpoint = Sources[s].url}

\* C14 as stated: when the performer holds at most one stash_id per source,
\* the stash_ids list handed to the catalog update holds at most one per
\* source.
C14_Original ==
    (/\ entity.update.called
     /\ \A s \in DOMAIN Sources : Cardinality(EntriesFor(entity.performer.stash_ids, s)) <= 1)
    => \A s \in DOMAIN Sources :
         Cardinality(EntriesFor(entity.update.payload.stash_ids, s)) <= 1

\* the candidates of a search result whose name equals the query,
\* compared case-insensitively
ExactMatches(result, query) ==
    IF result.t = "list"
    THEN {i \in 1..Len(result.l) :
            /\ DictGet(result.l[i], "name").t = "str"
            /\ Lower(result.l[i].o["name"].s) = Lower(query)}
    ELSE {}

\* C15: after a name search on a source, a find by id follows if and only
\* if exactly one candidate matches the name exactly; it asks for that
\* candidate's id and its record is what the source contributes.  With no
\* or several exact matches no find by id is made and the source
\* contributes nothing.
C15_ExactlyOneMatch ==
    \A i \in 1..Len(entity.trace) :
      entity.trace[i].op = "search_performer" =>
        LET c == entity.trace[i]
            m == ExactMatches(c.result, c.arg)
            finds == {j \in 1..Len(entity.trace) :
                        /\ entity.trace[j].op = "find_performer"
                        /\ entity.trace[j].source = c.source}
        IN IF Cardinality(m) = 1
           THEN /\ finds = {i + 1}
                /\ \A k \in m : entity.trace[i + 1].arg = c.result.l[k].o["id"].s
                /\ IF Truthy(entity.trace[i + 1].result)
                   THEN /\ Contributed(c.source)
                        /\ DictAt(entity.data, c.source) = entity.trace[i + 1].result
                   ELSE ~Contributed(c.source)
           ELSE finds = {} /\ ~Contributed(c.source)

\* C15 witness: one source answered the search with two exact matches and
\* was not asked for a record; the other answered with one match in another
\* case and its record was fetched
C15_Witness ==
    \E i, j \in 1..Len(entity.trace) :
       /\ entity.trace[i].op = "search_performer"
       /\ Cardinality(ExactMatches(entity.trace[i].result, entity.trace[i].arg)) = 2
       /\ Len(CallsTo(entity.trace[i].source)) = 1
       /\ entity.trace[j].op = "search_performer"
       /\ Cardinality(ExactMatches(entity.trace[j].result, entity.trace[j].arg)) = 1
       /\ entity.trace[j].result.l[1].o["name"].s # entity.trace[j].arg
       /\ Contributed(entity.trace[j].source)

\* C16: for each enabled source the calls made for one performer are: one
\* find by id with the held id when the performer holds an identity of that
\* source, and nothing else (no name search, even when the fetch failed); a
\* name search, followed at most by the find by id of its match, when it
\* holds none and name search is enabled; no call at all otherwise.  No
\* call is made to a source that is not enabled.
C16_LookupDecision ==
    Processed =>
      /\ \A i \in 1..Len(entity.trace) : entity.trace[i].source \in DOMAIN Sources
      /\ \A s \in DOMAIN Sources :
           LET cs == CallsTo(s)
           IN IF HeldIds(s) # {}
              THEN /\ Len(cs) = 1
                   /\ cs[1].op = "find_performer"
                   /\ cs[1].arg \in HeldIds(s)
              ELSE IF NameSearch
                   THEN /\ Len(cs) \in {1, 2}
                        /\ cs[1].op = "search_performer"
                        /\ cs[1].arg = entity.performer.name
                        /\ Len(cs) = 2 => cs[2].op = "find_performer"
                   ELSE cs = <<>>

\* C16 witness: name search is enabled, the fetch by the held id failed and
\* no search followed on that source, while the other source, of which the
\* performer holds nothing, was searched
C16_Witness ==
    /\ Processed
    /\ NameSearch
    /\ \E s \in DOMAIN Sources, t \in DOMAIN Sources :
         /\ HeldIds(s) # {}
         /\ Len(CallsTo(s)) = 1
         /\ ~Truthy(CallsTo(s)[1].result)
         /\ HeldIds(t) = {}
         /\ CallsTo(t)[1].op = "search_performer"

\* C17: when no enabled source yields data for the performer, the catalog
\* update is not called and the performer is reported as not updated.
C17_NoDataNoWrite ==
    Processed /\ entity.data = <<>> =>
      /\ ~entity.update.called
      /\ ~entity.raised
      /\ entity.result = SyncResult(FALSE, <<>>, "No new data found")
      /\ run.updated = 0

\* C17 witness: both sources were asked and neither yielded a record
C17_Witness ==
    /\ Processed
    /\ entity.data = <<>>
    /\ \A s \in DOMAIN Sources : CallsTo(s) # <<>>
    /\ run.pc = "done"

\* C18 as stated: every performer whose catalog update was rejected (the
\* collaborator raised or returned nothing) is counted in the errors of the
\* run's summary.
C18_Original ==
    run.pc = "done" =>
      \A id \in run.rejected :
        \E i \in 1..Len(run.result.errors) : run.result.errors[i] = id

SourceFailed(s) ==
    \/ /\ CallsTo(s) # <<>>
       /\ \A i \in 1..Len(CallsTo(s)) :
            CallsTo(s)[i].attempts = DefaultRetries /\ ~Truthy(CallsTo(s)[i].result)
    \/ s \in entity.raisedIn

ShouldQuery(s) == HeldIds(s) # {} \/ NameSearch

\* C20: a source whose every request failed contributes no record, every
\* other enabled source is still queried, and when any of them yields a
\* record the merge of the records is handed to the catalog update.
C20_SourceFailureIsolated ==
    Processed =>
      \A s \in DOMAIN Sources :
        SourceFailed(s) =>
          /\ ~Contributed(s)
          /\ \A t \in DOMAIN Sources \ {s} : ShouldQuery(t) => CallsTo(t) # <<>>
          /\ (entity.data # <<>> /\ ~entity.raised) =>
                /\ entity.update.called
                /\ entity.update.payload.height_cm =
                     DictGet(MergePerformerData(entity.data,
                                                GetSourcePrecedenceList(Sources)), "height")
                /\ \A t \in DictKeys(entity.data) :
                     \E i \in 1..Len(entity.update.payload.stash_ids) :
                        entity.update.payload.stash_ids[i] =
                          StashId(DictAt(entity.data, t).o["id"].s, Sources[t].url)

\* C20 witness: the transport of the rank-1 source failed five times, the
\* rank-2 source yielded a record and the catalog update was called with it
C20_Witness ==
    /\ Processed
    /\ \E s \in DOMAIN Sources, t \in DOMAIN Sources :
         /\ Sources[s].precedence < Sources[t].precedence
         /\ remote[s].down
         /\ CallsTo(s) # <<>> /\ CallsTo(s)[1].attempts = DefaultRetries
         /\ Contributed(t)
         /\ entity.update.called
         /\ entity.update.payload.height_cm = JStr("170")

\* ------------------------------------------------ configuration properties
\* the flag of the settings that switches source s
FlagOf(s) ==
    CASE s = "stashdb" -> "enableStashDB"
      [] s = "tpdb" -> "enableTPDB"
      [] OTHER -> "enableFansDB"
SwitchedOff(s) == ~PluginConfig[FlagOf(s)]
EnabledList == GetEnabledSources(PluginConfig, endpoints)
Listed(list, s) == \E i \in 1..Len(list) : list[i] = s

\* C21 as stated: a source whose enable flag (enableStashDB, enableTPDB,
\* enableFansDB) is false is not in the enabled-source list and no request
\* is made to it, for each of the three sources.
C21_Original ==
    \A s \in SourceNames :
      SwitchedOff(s) =>
        /\ ~Listed(EnabledList, s)
        /\ s \notin DOMAIN Sources
        /\ Processed => CallsTo(s) = <<>>

\* C22: the precedence ranks of the enabled sources are pairwise distinct,
\* and the precedence list holds each enabled source once, in strictly
\* increasing rank, whatever names the precedence setting repeats.
C22_RanksTotalOrder ==
    LET list == GetSourcePrecedenceList(Sources)
    IN /\ \A s, t \in DOMAIN Sources :
             s # t => Sources[s].precedence # Sources[t].precedence
       /\ Len(list) = Cardinality(DOMAIN Sources)
       /\ \A s \in DOMAIN Sources : Listed(list, s)
       /\ \A i \in 1..(Len(list) - 1) :
             Sources[list[i]].precedence < Sources[list[i + 1]].precedence

\* C22 witness: the precedence setting names a source twice, the repeated
\* source and another one are enabled, the list differs from the order of
\* the names, and a performer was processed under it
C22_Witness ==
    /\ Processed
    /\ \E i, j \in 1..Len(PluginConfig.sourcePrecedence) :
         /\ i < j
         /\ PluginConfig.sourcePrecedence[i] = PluginConfig.sourcePrecedence[j]
         /\ PluginConfig.sourcePrecedence[i] \in DOMAIN Sources
    /\ Cardinality(DOMAIN Sources) >= 2
    /\ GetSourcePrecedenceList(Sources) # EnabledList

\* ------------------------------------------------------ cache file properties
StoreOps == {"make_request", "find_performer", "get_favorites"}
\* the table a client method reads and writes
StoreTable(op) ==
    CASE op = "make_request" -> "search_cache"
      [] op = "find_performer" -> "performer_cache"
      [] OTHER -> "favorites_cache"
\* how the call's cache read ended: hit, miss, expired, error; none if it made none
ReadOut(c) ==
    LET gets == SelectSeq(c.log, LAMBDA ev : ev.e = "cache_get")
    IN IF gets = <<>> THEN "none" ELSE gets[Len(gets)].out
PutOk(c) == \E i \in 1..Len(c.log) : c.log[i].e = "cache_put"
PutFailed(c) == \E i \in 1..Len(c.log) : c.log[i].e = "cache_put_failed"
\* the call made again on a file that works and holds no row
CallArgs(c, use_cache) ==
    Args(c.query, c.variables, c.source, use_cache, c.retries, c.k, c.resp)
OnEmptyFile(c) ==
    LET st == [Begin EXCEPT !.cache = EmptyCache]
    IN CASE c.op = "make_request" ->
              [raised |-> FALSE] @@ MakeRequestRun(st, CallArgs(c, c.use_cache))
         [] c.op = "find_performer" ->
              [raised |-> FALSE] @@ FindPerformerRun(st, c.variables, CallArgs(c, FALSE))
         [] OTHER -> GetFavoritesRun(st, c.variables, CallArgs(c, FALSE))
\* the rows of a file other than the one a read addressed, and that one
OtherRows(store, rd) ==
    [tb \in Tables |-> {x \in store[tb] : ~(tb = rd.tb /\ x.id = rd.id)}]
RowsRead(store, rd) == {x \in store[rd.tb] : x.id = rd.id}

\* C23: when the cache read or the cache write of a call fails, the call
\* raises nothing the same call would not raise on an empty working cache,
\* returns what that call returns after the same network attempts (for
\* make_request: what it returns with use_cache = False), and a failed write
\* adds no row to the file.
C23_StorageFailureAbsorbed ==
    [][(CallStep /\ lastCall'.op \in StoreOps
          /\ (ReadOut(lastCall') = "error" \/ PutFailed(lastCall'))) =>
         LET c == lastCall'
             ref == OnEmptyFile(c)
         IN /\ c.raised = ref.raised
            /\ c.result = ref.result
            /\ Attempts(c.log) = Attempts(ref.st.log)
            /\ c.op = "make_request" =>
                  c.result = MakeRequestRun(Begin, CallArgs(c, FALSE)).result
            /\ PutFailed(c) => \A tb \in Tables : cache'[tb] \subseteq cache[tb]
            /\ (ReadOut(c) = "error" /\ ~PutOk(c)) => cache' = cache]_vars

\* C23 witness: find_performer on a file whose SELECT fails, while the file
\* holds an unexpired row for the performer: the source is asked, it does
\* not answer, and the call returns nothing
C23_Witness ==
    /\ lastCall.op = "find_performer"
    /\ lastCall.disk = {"select"}
    /\ ReadOut(lastCall) = "error"
    /\ Len(Attempts(lastCall.log)) = DefaultRetries
    /\ lastCall.result = JNull
    /\ \E x \in RowsRead(cache, lastCall.read) :
         IsCacheValid(x.timestamp, lastCall.start, PluginConfig)

\* C24: a read that finds its row expired returns nothing and removes that
\* row and no other (the call may write the row anew); a read that hits or
\* misses changes nothing, the only change of such a call is the row it
\* writes, and a call that returns the row it read writes nothing; the
\* passing of time removes nothing.
C24_LazyDeletion ==
    [][/\ (CallStep /\ lastCall'.op \in StoreOps /\ lastCall'.read.done) =>
            LET c == lastCall'
                rd == lastCall'.read
            IN /\ OtherRows(cache', rd) = OtherRows(cache, rd)
               /\ ReadOut(c) = "expired" =>
                     /\ rd.data = JNull
                     /\ RowsRead(cache, rd) # {}
                     /\ ~PutOk(c) => RowsRead(cache', rd) = {}
                     /\ PutOk(c) => \A x \in RowsRead(cache', rd) : x.timestamp >= rd.at
               /\ (ReadOut(c) \in {"hit", "miss"} /\ ~PutOk(c)) => cache' = cache
               /\ (ReadOut(c) = "hit" /\ Truthy(rd.data)) => cache' = cache
       /\ ticks' # ticks => cache' = cache]_vars

\* C24 witness: get_favorites whose row had expired and whose request
\* brought nothing: the row is gone, and another expired row of the same
\* table, never read, is still there
C24_Witness ==
    /\ lastCall.op = "get_favorites"
    /\ ReadOut(lastCall) = "expired"
    /\ lastCall.result = JNull
    /\ RowsRead(cache, lastCall.read) = {}
    /\ \E x \in cache["favorites_cache"] :
         ~IsCacheValid(x.timestamp, lastCall.start, PluginConfig)

\* C25: a client method changes no table but its own; clear_cache on a
\* working file empties the three tables and returns, per table, the number
\* of rows it held, expired rows included.
C25_NamespacesIndependent ==
    [][CallStep =>
         LET c == lastCall'
         IN /\ c.op \in StoreOps =>
                  \A tb \in Tables \ {StoreTable(c.op)} : cache'[tb] = cache[tb]
            /\ (c.op = "clear_cache" /\ c.disk = {}) =>
                  /\ cache' = EmptyCache
                  /\ c.result = Cleared(Cardinality(cache["performer_cache"]),
                                         Cardinality(cache["search_cache"]),
                                         Cardinality(cache["favorites_cache"]))]_vars

\* C25 witness: clear_cache returned the counts of a file that held an
\* expired and a fresh row in performer_cache and in favorites_cache
C25_Witness ==
    /\ lastCall.op = "clear_cache"
    /\ lastCall.result = Cleared(2, 0, 2)
    /\ cache = EmptyCache
    /\ \A tb \in {"performer_cache", "favorites_cache"} :
         \E p, q \in lastPut[tb] :
           /\ ~IsCacheValid(p.at, lastCall.start, PluginConfig)
           /\ IsCacheValid(q.at, lastCall.start, PluginConfig)

\* ----------------------------------------------------- payload properties
\* str.upper() on the gender values that occur
Upper(text) ==
    CASE text \in {"MALE", "Male", "male"} -> "MALE"
      [] text \in {"FEMALE", "Female", "female"} -> "FEMALE"
      [] OTHER -> text
MergedGender == GetOr(merged, "gender", JNull)
GenderAccepted == MergedGender.t = "str" /\ Upper(MergedGender.s) \in {"MALE", "FEMALE"}

\* C26 as stated: the payload is built without an error, its gender is the
\* merged gender (as it is or in upper case) when that equals MALE or
\* FEMALE regardless of case, and is absent for every other value.
C26_Original ==
    payload.built =>
      /\ ~payload.raised
      /\ GenderAccepted =>
            payload.payload.gender \in {MergedGender, JStr(Upper(MergedGender.s))}
      /\ ~GenderAccepted => payload.payload.gender = JNull

StartYear == GetOr(merged, "career_start_year", JNull)
EndYear == GetOr(merged, "career_end_year", JNull)

\* C27 as stated: the career length of the payload is "start-end" when the
\* merged record has both years, "start" when it has the start year only,
\* and absent otherwise, also when it has the end year only.
C27_Original ==
    payload.built =>
      payload.payload.career_length =
        IF Truthy(StartYear) /\ Truthy(EndYear)
        THEN JStr(StartYear.s \o "-" \o EndYear.s)
        ELSE IF Truthy(StartYear) THEN JStr(StartYear.s) ELSE JNull

\* --------------------------------------------------- favorites properties
\* the local entities that match a remote favorite by (endpoint of the
\* source, external id) or by name, compared case-insensitively
LocalMatches(entities, favorite, source) ==
    {i \in 1..Len(entities) :
       \/ \E j \in 1..Len(entities[i].stash_ids) :
             entities[i].stash_ids[j] =
               StashId(FavoriteId(favorite).s, Sources[source].url)
       \/ Lower(entities[i].name) = Lower(FavoriteName(favorite).s)}

\* C28 as stated: a local entity is created for a remote favorite only if
\* the auto-create flag of its kind is set and no local entity matches it
\* by identity or by name; with the flag unset nothing is created.
C28_Original ==
    (fav.done /\ fav.create.called) =>
      /\ ConfigGet(PluginConfig, AutoCreateFlag(fav.kind), FALSE)
      /\ LocalMatches(fav.before, fav.favorite, fav.source) = {}

\* ---------------------------------------------- terminal state properties
\* the terminal states the result of a processed performer stands for
EntityStates ==
    {x \in {"updated", "unchanged", "failed"} :
       \/ x = "updated" /\ ~entity.raised /\ entity.result.updated
       \/ x = "unchanged" /\ ~entity.raised /\ ~entity.result.updated
                           /\ entity.result.message = "No new data found"
       \/ x = "failed" /\ (\/ entity.raised
                             \/ /\ ~entity.result.updated
                                /\ entity.result.message # "No new data found")}
CatalogAccepted == entity.update.called /\ entity.update.outcome \in {"ok", "no_name"}
CatalogRejected == entity.update.called /\ entity.update.outcome \in {"none", "raises"}

\* C29 as stated: a processed performer is in exactly one of updated,
\* unchanged, failed; unchanged exactly when no source yielded data, updated
\* exactly when the catalog update was called and succeeded, failed exactly
\* when it was called and returned nothing or raised.
C29_Original ==
    Processed =>
      /\ Cardinality(EntityStates) = 1
      /\ "unchanged" \in EntityStates <=> entity.data = <<>>
      /\ "updated" \in EntityStates <=> CatalogAccepted
      /\ "failed" \in EntityStates <=> CatalogRejected

\* the attributes of the payload that differ from the local performer
ChangedFields ==
    LET local == entity.performer
        new == entity.update.payload
    IN {x \in {"name", "height_cm", "stash_ids", "gender", "career_length", "image"} :
          CASE x = "name" -> new.name # JStr(local.name)
            [] x = "height_cm" -> new.height_cm # local.height_cm
            [] x = "stash_ids" -> new.stash_ids # local.stash_ids
            [] x = "gender" -> new.gender # JNull
            [] x = "career_length" -> new.career_length # JNull
            [] OTHER -> new.image # JNull}

\* C30 as stated: the performer holds a stash_id for stashdb only, stashdb
\* returns {id: s1, name, height: 170} and the tpdb search has no exact
\* match: the merged height is 170, the stash_ids written are the existing
\* ones, and the result is updated only if an attribute written differs
\* from the local performer.
C30_Original ==
    Processed =>
      /\ entity.update.called
      /\ entity.update.payload.height_cm = JStr("170")
      /\ DictKeys(entity.data) = {"stashdb"}
      /\ entity.update.payload.stash_ids = entity.performer.stash_ids
      /\ entity.result.updated => ChangedFields # {}

\* ------------------------------------------------- retries and throttling
\* C31: a call makes at most `retries` network attempts; the first attempt
\* that is answered (with data or with an error list) is the last one, and
\* nothing but the cache write follows it.
C31_BoundedAttempts ==
    LET log == lastCall.log
        att == Attempts(log)
    IN /\ Len(att) <= lastCall.retries
       /\ \A i \in 1..Len(att) : att[i].out # "transport_error" => i = Len(att)
       /\ \A i \in 1..Len(log) :
            log[i].e = "attempt" /\ log[i].out # "transport_error" =>
              \A j \in (i + 1)..Len(log) : log[j].e \in {"cache_put", "cache_put_failed"}

\* C31 witness: one transport failure, then an answer, with attempts to spare
C31_Witness ==
    /\ lastCall.op = "make_request"
    /\ lastCall.retries = DefaultRetries
    /\ Len(Attempts(lastCall.log)) = 2
    /\ Attempts(lastCall.log)[1].out = "transport_error"
    /\ Attempts(lastCall.log)[2].out \in {"ok", "errors"}

\* the configured delay between two network attempts
RateLimitDelay == IF PluginConfig.rateLimit > 0 THEN PluginConfig.rateLimit ELSE 0

\* C32: over a run of update_all_performers no two network attempts overlap
\* and every attempt starts at least the rate-limit delay after the previous
\* attempt ended, within one performer (across its sources, cache reads and
\* retries) and from one performer to the next.
C32_OneRequestAtATime ==
    /\ [](LET att == Attempts(entity.log)
          IN /\ \A i \in 1..Len(att) : att[i].at + att[i].d <= now
             /\ \A i \in 1..(Len(att) - 1) :
                  att[i + 1].at >= att[i].at + att[i].d + RateLimitDelay)
    /\ [][run.pc = "loop" /\ run'.i = run.i + 1 /\ Attempts(entity'.log) # <<>> =>
            Attempts(entity'.log)[1].at >= now + RateLimitDelay]_vars

\* C32 witness: the second performer of a run made several attempts, one of
\* them a retry, after attempts had been made for the first
C32_Witness ==
    /\ run.processed = 2
    /\ now > 0
    /\ RateLimitDelay > 0
    /\ Len(Attempts(entity.log)) >= 3
    /\ \E i \in 1..Len(entity.log) : entity.log[i].e = "backoff_sleep"
    /\ \E i \in 1..Len(entity.log) : entity.log[i].e = "cache_get" /\ entity.log[i].out = "hit"

\* ------------------------------------------------------- the cache file
\* the cache_put events of a call
PutEvents(c) == SelectSeq(c.log, LAMBDA ev : ev.e = "cache_put")

\* C33: a table never holds two rows of one key, and after a write the row
\* of the key carries the payload and the time of that write, whatever row
\* the key had before: the row is valid from the write to the last second
\* of a full TTL counted from it.
C33_LastWriteWins ==
    /\ [](\A tb \in Tables : \A x, y \in cache[tb] : x.id = y.id => x = y)
    /\ [][(CallStep /\ lastCall'.op \in StoreOps /\ PutOk(lastCall')) =>
            LET c == lastCall'
                put == PutEvents(c)[Len(PutEvents(c))]
                rows == RowsRead(cache', c.read)
            IN /\ put.tb = c.read.tb
               /\ Cardinality(rows) = 1
               /\ \A x \in rows :
                    /\ x.data = JsonDumps(c.result)
                    /\ JsonLoads(x.data) = c.result
                    /\ x.timestamp = put.at
                    /\ \A t \in {put.at, put.at + 1, put.at + TTL - 1} :
                         IsCacheValid(x.timestamp, t, PluginConfig)]_vars

\* C33 witness: a call wrote the row of a key that had a row of an earlier
\* time (the read of it had failed): one row, of the later time
C33_Witness ==
    /\ lastCall.op \in StoreOps
    /\ PutOk(lastCall)
    /\ lastCall.held # {}
    /\ Cardinality(RowsRead(cache, lastCall.read)) = 1
    /\ \A x \in RowsRead(cache, lastCall.read) :
         \A y \in lastCall.held : x.timestamp > y.timestamp

\* C34 as stated: two make_request calls of the same source, query and
\* variables read the cache under the same key, also when the plugin process
\* was restarted in between, and the second, made within the TTL of the data
\* the first returned, is a cache hit.
C34_Original ==
    [][(CallStep /\ SameRequest(lastCall, lastCall')
          /\ lastCall.read.done /\ lastCall'.read.done) =>
         /\ lastCall'.read.id = lastCall.read.id
         /\ (Truthy(lastCall.result) /\ lastCall'.start < lastCall.start + TTL) =>
               ReadOut(lastCall') = "hit"]_vars

\* --------------------------------------------------- the precedence names
Named(s) == Listed(PluginConfig.sourcePrecedence, s)
NamesAndEndpoints ==
    DOMAIN endpoints \cup
      {PluginConfig.sourcePrecedence[i] : i \in 1..Len(PluginConfig.sourcePrecedence)}

\* C35: a name of sourcePrecedence without an endpoint and an endpoint that
\* sourcePrecedence does not name are both no source: they are not in the
\* sources, not in the enabled list and never queried; nothing raises, and
\* the sources that are named, have an endpoint and are not switched off
\* are queried all the same.
C35_PrecedenceNamesOnly ==
    /\ \A s \in NamesAndEndpoints :
         ~(Named(s) /\ s \in DOMAIN endpoints) =>
           /\ s \notin DOMAIN Sources
           /\ ~Listed(EnabledList, s)
           /\ Processed => CallsTo(s) = <<>>
    /\ \A s \in NamesAndEndpoints :
         (Named(s) /\ s \in DOMAIN endpoints
            /\ ConfigGet(PluginConfig, EnableKey(s), TRUE)) =>
           /\ s \in DOMAIN Sources
           /\ Listed(EnabledList, s)
           /\ Processed => CallsTo(s) # <<>>
    /\ Processed => ~entity.raised
    /\ run.pc = "done" => run.result.errors = <<>>

\* C35 witness: the setting names a source without an endpoint and leaves
\* out two endpoints; the performer was processed with requests to the one
\* source that is both named and configured
C35_Witness ==
    /\ Processed
    /\ PluginConfig.sourcePrecedence = <<"other", "tpdb", "tpdb">>
    /\ DOMAIN endpoints = SourceNames
    /\ CallsTo("tpdb") # <<>>
    /\ \A i \in 1..Len(entity.trace) : entity.trace[i].source = "tpdb"
    /\ run.pc = "done"

\* the call went to the network and its last attempt failed: the retries
\* were used up, or the answer carried an error list
EndedInFailure(c) ==
    /\ Attempts(c.log) # <<>>
    /\ Attempts(c.log)[Len(Attempts(c.log))].out \in {"transport_error", "errors"}

\* C36: a make_request, find_performer or get_favorites call that ends in
\* failure attempts no cache write and leaves the three tables as they
\* were, but for the row of the key it read if that row had expired; and a
\* row is written only by a call whose last attempt was answered with data.
C36_WriteOnlyAfterData ==
    [][(CallStep /\ lastCall'.op \in StoreOps) =>
         LET c == lastCall'
             rd == lastCall'.read
         IN /\ EndedInFailure(c) =>
                 /\ c.result = JNull
                 /\ ~PutOk(c) /\ ~PutFailed(c)
                 /\ \A tb \in Tables : cache'[tb] \subseteq cache[tb]
                 /\ rd.done => OtherRows(cache', rd) = OtherRows(cache, rd)
                 /\ cache' # cache =>
                       /\ ReadOut(c) = "expired"
                       /\ \A x \in RowsRead(cache, rd) :
                            ~IsCacheValid(x.timestamp, rd.at, PluginConfig)
            /\ (PutOk(c) \/ PutFailed(c) \/ ~(\A tb \in Tables : cache'[tb] \subseteq cache[tb])) =>
                 /\ Attempts(c.log) # <<>>
                 /\ Attempts(c.log)[Len(Attempts(c.log))].out = "ok"
                 /\ Truthy(c.resp.data)
                 /\ ~c.resp.errors]_vars

\* C36 witness: get_favorites read an expired row, the source was down for
\* every attempt, and the file lost that row and nothing else
C36_Witness ==
    /\ lastCall.op = "get_favorites"
    /\ EndedInFailure(lastCall)
    /\ Len(Attempts(lastCall.log)) = DefaultRetries
    /\ ReadOut(lastCall) = "expired"
    /\ lastCall.held # {}
    /\ RowsRead(cache, lastCall.read) = {}
    /\ cache["performer_cache"] # {}
    /\ cache["favorites_cache"] # {}

\* two get_favorites calls in a row for the same source and type
SameFavorites(c, d) ==
    /\ c.op = "get_favorites" /\ d.op = "get_favorites"
    /\ c.source = d.source /\ c.variables = d.variables

\* C38 as stated: after get_favorites has fetched a list and stored it, the
\* next get_favorites for the same source and type within the TTL, on a
\* file that works, returns the stored list with no network attempt,
\* whatever its length, the empty list included.
C38_Original ==
    [][(CallStep /\ SameFavorites(lastCall, lastCall') /\ PutOk(lastCall)
          /\ lastCall'.disk = {}
          /\ lastCall'.start < PutEvents(lastCall)[1].at + TTL) =>
         /\ lastCall'.result = lastCall.result
         /\ Attempts(lastCall'.log) = <<>>]_vars

\* ------------------------------------------------ the catalog update call
\* C37: the catalog update of a performer is called after the loop over the
\* enabled sources has ended: every client call of the performer precedes
\* it, every enabled source has been queried unless it was to be skipped,
\* and over a run no performer is updated twice.
C37_UpdateOnceAfterSources ==
    /\ (Processed /\ entity.update.called) =>
         /\ entity.update.after = Len(entity.trace)
         /\ \A s \in DOMAIN Sources : ShouldQuery(s) => CallsTo(s) # <<>>
    /\ \A i, j \in 1..Len(run.updates) : run.updates[i] = run.updates[j] => i = j
    /\ Len(run.updates) <= run.processed

\* C37 witness: a run that updated two performers, the second after client
\* calls to two sources
C37_Witness ==
    /\ run.pc = "done"
    /\ Len(run.updates) = 2
    /\ entity.update.called
    /\ Cardinality({entity.trace[i].source : i \in 1..Len(entity.trace)}) = 2
    /\ Len(entity.trace) >= 3


\* --------------------------------------------- favorites of all sources
RECURSIVE SumSynced(_)
SumSynced(results) ==
    IF results = <<>> THEN 0
    ELSE ConfigGet(Head(results)[2], "synced", 0) + SumSynced(Tail(results))

RECURSIVE SumErrors(_)
SumErrors(results) ==
    IF results = <<>> THEN 0
    ELSE (IF "error" \in DOMAIN Head(results)[2] THEN 1
          ELSE Len(ConfigGet(Head(results)[2], "errors", <<>>)))
         + SumErrors(Tail(results))

\* C39: sync_all_favorites visits every enabled source, also after a source
\* that failed; total_synced is the sum of the sources' synced counts; and a
\* source whose result is an error adds at least 1 to total_errors, so that
\* total_errors is at least the number of such sources plus the errors the
\* other sources list.  (As stated in the specification; the last part does
\* not hold of the code.)
C39_Original ==
    fav.done =>
       /\ [i \in DOMAIN fav.result.source_results |-> fav.result.source_results[i][1]]
            = GetEnabledSources(PluginConfig, endpoints)
       /\ fav.result.total_synced = SumSynced(fav.result.source_results)
       /\ fav.result.total_errors >= SumErrors(fav.result.source_results)

\* C40: a second run with the same remote favorites, after a first run whose
\* catalog writes all succeeded, calls neither the catalog's update nor its
\* create, and no run clears a favorite flag.  (As stated in the
\* specification; it does not hold of the code.)
C40_Original ==
    fav.done =>
       /\ \A i \in DOMAIN fav.before :
            fav.before[i].favorite => catalog["performers"][i].favorite
       /\ (/\ fav.first # <<>>
           /\ \A i \in DOMAIN fav.first[1].writes : fav.first[1].writes[i].outcome = "ok")
          => fav.writes = <<>>

====
